---- MODULE Spec2Model ----
(***************************************************************************)
(* A model of the TAG chat backend: the per-session chat orchestrator       *)
(* (app/services/chat_service.py), its mutation state machine, the         *)
(* workflow graph (app/assistant/orchestration/graph.py) with its nodes,   *)
(* the SQL builder and the Redis-backed stores.                            *)
(*                                                                         *)
(* Text is modelled as a sequence of one-character strings, so that        *)
(* strip(), lower(), isdigit(), int(), substring search and the key=value  *)
(* regular expressions are computed, not assumed.  The character "^2"      *)
(* stands for U+00B2 (SUPERSCRIPT TWO): str.isdigit() accepts it and       *)
(* int() raises ValueError on it.                                          *)
(***************************************************************************)
EXTENDS Integers, Sequences, FiniteSets, TLC

(***************************************************************************)
(* Text primitives (Python str and re semantics)                           *)
(***************************************************************************)
Lowers == <<"a", "b", "c", "d", "e", "f", "g", "h", "i", "j", "k", "l", "m",
            "n", "o", "p", "q", "r", "s", "t", "u", "v", "w", "x", "y", "z">>
Uppers == <<"A", "B", "C", "D", "E", "F", "G", "H", "I", "J", "K", "L", "M",
            "N", "O", "P", "Q", "R", "S", "T", "U", "V", "W", "X", "Y", "Z">>
AsciiDigitSeq == <<"0", "1", "2", "3", "4", "5", "6", "7", "8", "9">>

RangeOf(s) == {s[i] : i \in 1..Len(s)}
Letters == RangeOf(Lowers) \cup RangeOf(Uppers)
AsciiDigits == RangeOf(AsciiDigitSeq)
\* characters for which str.isdigit() is true
DigitChars == AsciiDigits \cup {"^2"}
Whitespace == {" "}
Quotes == {"'", "\""}

LowerChar(c) ==
    IF \E i \in 1..Len(Uppers) : Uppers[i] = c
    THEN Lowers[CHOOSE i \in 1..Len(Uppers) : Uppers[i] = c]
    ELSE c

\* str.lower()
Lower(s) == [i \in 1..Len(s) |-> LowerChar(s[i])]

RECURSIVE LStrip(_, _)
LStrip(s, cs) == IF s # <<>> /\ Head(s) \in cs THEN LStrip(Tail(s), cs) ELSE s

RECURSIVE RStrip(_, _)
RStrip(s, cs) ==
    IF s # <<>> /\ s[Len(s)] \in cs THEN RStrip(SubSeq(s, 1, Len(s) - 1), cs) ELSE s

\* str.strip(chars)
StripChars(s, cs) == RStrip(LStrip(s, cs), cs)

\* str.strip()
Strip(s) == StripChars(s, Whitespace)

\* sub in s
Contains(s, sub) ==
    \E i \in 0..(Len(s) - Len(sub)) : SubSeq(s, i + 1, i + Len(sub)) = sub

\* str.isdigit()
IsDigit(s) == s # <<>> /\ \A i \in 1..Len(s) : s[i] \in DigitChars

\* int(s) raises ValueError (s has passed isdigit())
IntRaises(s) == \E i \in 1..Len(s) : s[i] \notin AsciiDigits

DigitVal(c) == (CHOOSE n \in 1..10 : AsciiDigitSeq[n] = c) - 1

\* int(s) for a string of ASCII digits
RECURSIVE IntValue(_)
IntValue(s) ==
    IF s = <<>> THEN 0
    ELSE 10 * IntValue(SubSeq(s, 1, Len(s) - 1)) + DigitVal(s[Len(s)])

\* str(n) for n >= 0
RECURSIVE IntStr(_)
IntStr(n) ==
    IF n < 10 THEN <<AsciiDigitSeq[n + 1]>>
    ELSE IntStr(n \div 10) \o <<AsciiDigitSeq[(n % 10) + 1]>>

IsIdentStart(c) == c \in Letters \cup {"_"}
IsIdentChar(c) == c \in Letters \cup {"_"} \cup AsciiDigits
\* \w of the regular expressions
IsWordChar(c) == IsIdentChar(c)

(***************************************************************************)
(* Python dicts: insertion-ordered sequences of <<key, value>> pairs       *)
(***************************************************************************)
EmptyDict == <<>>
Keys(d) == [i \in 1..Len(d) |-> d[i][1]]
KeySet(d) == {d[i][1] : i \in 1..Len(d)}
Has(d, k) == k \in KeySet(d)
Get(d, k, default) ==
    IF Has(d, k) THEN d[CHOOSE i \in 1..Len(d) : d[i][1] = k][2] ELSE default
\* d[k] = v : an existing key keeps its position
Put(d, k, v) ==
    IF Has(d, k)
    THEN [i \in 1..Len(d) |-> IF d[i][1] = k THEN <<k, v>> ELSE d[i]]
    ELSE Append(d, <<k, v>>)
RECURSIVE Pop(_, _)
\* d.pop(k, None)
Pop(d, k) ==
    IF d = <<>> THEN <<>>
    ELSE IF Head(d)[1] = k THEN Tail(d)
    ELSE <<Head(d)>> \o Pop(Tail(d), k)
RECURSIVE Update(_, _)
\* d.update(e)
Update(d, e) == IF e = <<>> THEN d ELSE Update(Put(d, Head(e)[1], Head(e)[2]), Tail(e))
\* x in list
InSeq(x, s) == \E i \in 1..Len(s) : s[i] = x
RECURSIVE Filter(_, _)
\* [x for x in s if x not in drop]
Filter(s, drop) ==
    IF s = <<>> THEN <<>>
    ELSE IF Head(s) \in drop THEN Filter(Tail(s), drop)
    ELSE <<Head(s)>> \o Filter(Tail(s), drop)

(***************************************************************************)
(* SQLBuilderService.parse_kv_pairs: re.findall of the three patterns      *)
(*   ident \s* = \s* ([^,;]+),  ident \s* : \s* ([^,;]+),                  *)
(*   ident \s+ is \s+ ([^,;]+)   (IGNORECASE)                              *)
(***************************************************************************)
RECURSIVE IdentEnd(_, _)
\* last index of the greedy run [A-Za-z0-9_]* that follows the identifier start at i
IdentEnd(t, i) ==
    IF i < Len(t) /\ IsIdentChar(t[i + 1]) THEN IdentEnd(t, i + 1) ELSE i

RECURSIVE SkipWs(_, _)
\* first index at or after j that is not whitespace (greedy \s*)
SkipWs(t, j) == IF j <= Len(t) /\ t[j] \in Whitespace THEN SkipWs(t, j + 1) ELSE j

RECURSIVE ValueEnd(_, _)
\* last index of the greedy run [^,;]+ starting at j; j - 1 when the run is empty
ValueEnd(t, j) ==
    IF j <= Len(t) /\ t[j] \notin {",", ";"} THEN ValueEnd(t, j + 1) ELSE j - 1

NoMatch == [ok |-> FALSE, key |-> <<>>, val |-> <<>>, end |-> 0]

\* ([^,;]+) after a greedy whitespace run that ended before q; when nothing is
\* left for the group the run gives one whitespace character back, as long as
\* it keeps starting at or after minBack
ValueFrom(t, q, minBack) ==
    LET ve == ValueEnd(t, q) IN
    IF ve >= q THEN [ok |-> TRUE, from |-> q, to |-> ve]
    ELSE IF q - 1 >= minBack THEN [ok |-> TRUE, from |-> q - 1, to |-> q - 1]
    ELSE [ok |-> FALSE, from |-> 0, to |-> 0]

\* a match of  ident \s* sep \s* ([^,;]+)  starting exactly at i
MatchSep(t, i, sep) ==
    IF ~IsIdentStart(t[i]) THEN NoMatch
    ELSE LET je == IdentEnd(t, i)
             p == SkipWs(t, je + 1)
         IN IF p > Len(t) \/ t[p] # sep THEN NoMatch
            ELSE LET v == ValueFrom(t, SkipWs(t, p + 1), p + 1)
                 IN IF ~v.ok THEN NoMatch
                    ELSE [ok |-> TRUE, key |-> SubSeq(t, i, je),
                          val |-> SubSeq(t, v.from, v.to), end |-> v.to]

\* a match of  ident \s+ is \s+ ([^,;]+)  starting exactly at i
MatchIs(t, i) ==
    IF ~IsIdentStart(t[i]) THEN NoMatch
    ELSE LET je == IdentEnd(t, i)
             p == SkipWs(t, je + 1)
         IN IF p = je + 1 \/ p + 1 > Len(t) THEN NoMatch
            ELSE IF LowerChar(t[p]) # "i" \/ LowerChar(t[p + 1]) # "s" THEN NoMatch
            ELSE LET q == SkipWs(t, p + 2)
                     v == ValueFrom(t, q, p + 3)
                 IN IF q = p + 2 \/ ~v.ok THEN NoMatch
                    ELSE [ok |-> TRUE, key |-> SubSeq(t, i, je),
                          val |-> SubSeq(t, v.from, v.to), end |-> v.to]

MatchAt(t, i, pattern) ==
    IF pattern = "is" THEN MatchIs(t, i) ELSE MatchSep(t, i, pattern)

RECURSIVE FindAll(_, _, _)
\* re.findall: leftmost matches, scanning on after each one
FindAll(t, i, pattern) ==
    IF i > Len(t) THEN <<>>
    ELSE LET m == MatchAt(t, i, pattern)
         IN IF m.ok THEN <<<<m.key, m.val>>>> \o FindAll(t, m.end + 1, pattern)
            ELSE FindAll(t, i + 1, pattern)

RECURSIVE StorePairs(_, _)
\* out[k.strip()] = v.strip().strip("'\"")
StorePairs(out, pairs) ==
    IF pairs = <<>> THEN out
    ELSE StorePairs(Put(out, Strip(Head(pairs)[1]),
                        StripChars(Strip(Head(pairs)[2]), Quotes)),
                    Tail(pairs))

parse_kv_pairs(text) ==
    StorePairs(StorePairs(StorePairs(EmptyDict, FindAll(text, 1, "=")),
                          FindAll(text, 1, ":")),
               FindAll(text, 1, "is"))

(***************************************************************************)
(* Literal words of the program                                            *)
(***************************************************************************)
W_occurrence == <<"o", "c", "c", "u", "r", "r", "e", "n", "c", "e">>
W_is_active == <<"i", "s", "_", "a", "c", "t", "i", "v", "e">>
W_active == <<"a", "c", "t", "i", "v", "e">>
W_enabled == <<"e", "n", "a", "b", "l", "e", "d">>
W_date == <<"d", "a", "t", "e">>
W_id == <<"i", "d">>
W_company_id == <<"c", "o", "m", "p", "a", "n", "y", "_", "i", "d">>
W_field_value == <<"f", "i", "e", "l", "d", "=", "v", "a", "l", "u", "e">>
W_cancel == <<"c", "a", "n", "c", "e", "l">>
W_stop == <<"s", "t", "o", "p">>
W_exit == <<"e", "x", "i", "t">>
W_abort == <<"a", "b", "o", "r", "t">>
W_next == <<"n", "e", "x", "t">>
W_more == <<"m", "o", "r", "e">>
W_prev == <<"p", "r", "e", "v">>
W_back == <<"b", "a", "c", "k">>
W_yes == <<"y", "e", "s">>
W_y == <<"y">>
W_confirm == <<"c", "o", "n", "f", "i", "r", "m">>
W_confirmed == <<"c", "o", "n", "f", "i", "r", "m", "e", "d">>
W_proceed == <<"p", "r", "o", "c", "e", "e", "d">>
W_no == <<"n", "o">>
W_n == <<"n">>
W_edit == <<"e", "d", "i", "t">>
W_change == <<"c", "h", "a", "n", "g", "e">>

\* chat_service.py:330
CancelWords == {W_cancel, W_stop, W_exit, W_abort}
\* chat_service.py:437
YesWords == {W_yes, W_y, W_confirm, W_confirmed, W_proceed}
\* chat_service.py:448
NoWords == {W_no, W_n, W_edit, W_change}
\* chat_service.py:267
CommandTokens ==
    { <<"c", "r", "e", "a", "t", "e", " ">>, <<"i", "n", "s", "e", "r", "t", " ">>,
      <<"a", "d", "d", " ">>, <<"u", "p", "d", "a", "t", "e", " ">>,
      <<"s", "h", "o", "w", " ">>, <<"l", "i", "s", "t", " ">>,
      <<"c", "o", "u", "n", "t", " ">>, <<"g", "e", "t", " ">>,
      <<"f", "i", "n", "d", " ">> }
\* chat_service.py:62, the alternatives that are plain substrings
NumericHints ==
    { <<"c", "o", "u", "n", "t">>, <<"q", "t", "y">>,
      <<"q", "u", "a", "n", "t", "i", "t", "y">>, <<"a", "m", "o", "u", "n", "t">>,
      <<"p", "r", "i", "c", "e">>, W_occurrence, <<"n", "u", "m", "b", "e", "r">>,
      <<"r", "e", "f", "_", "n", "o">> }
BooleanNames == {W_is_active, W_active, W_enabled}

Min(a, b) == IF a < b THEN a ELSE b
Max(a, b) == IF a > b THEN a ELSE b
\* s[start:end] of Python, 0-based, end exclusive
Slice(s, start, end) ==
    IF start >= Min(end, Len(s)) THEN <<>> ELSE SubSeq(s, start + 1, Min(end, Len(s)))

\* "page_size": 5 (chat_service.py:342, 576, 610)
DefaultPageSize == 5

\* a local variable: value is computed once and Op is applied to the result
With(value, Op(_)) == CHOOSE result \in {Op(v) : v \in {value}} : TRUE

(***************************************************************************)
(* The mutation state of a session (chat_service.py:565-577, 599-611).     *)
(* workflow_id, the state label and field_descriptions only feed the       *)
(* rendered text and are left out.                                         *)
(***************************************************************************)
NoMutation == [present |-> FALSE]

MutationState(op, table, required, collected, pending, awaiting, page, page_size) ==
    [present |-> TRUE, operation |-> op, table |-> table,
     required_fields |-> required, collected_fields |-> collected,
     pending_field |-> pending, awaiting |-> awaiting,
     page |-> page, page_size |-> page_size]

\* not str(collected_fields.get(field, "")).strip()
IsMissing(collected, field) == Strip(Get(collected, field, <<>>)) = <<>>

RECURSIVE remaining_fields(_, _)
remaining_fields(required_fields, collected_fields) ==
    IF required_fields = <<>> THEN <<>>
    ELSE IF IsMissing(collected_fields, Head(required_fields))
         THEN <<Head(required_fields)>>
              \o remaining_fields(Tail(required_fields), collected_fields)
         ELSE remaining_fields(Tail(required_fields), collected_fields)

RECURSIVE next_missing_field(_, _)
next_missing_field(required_fields, collected_fields) ==
    IF required_fields = <<>> THEN <<>>
    ELSE IF IsMissing(collected_fields, Head(required_fields))
         THEN Head(required_fields)
         ELSE next_missing_field(Tail(required_fields), collected_fields)

EndsWith(s, suffix) ==
    Len(s) >= Len(suffix) /\ SubSeq(s, Len(s) - Len(suffix) + 1, Len(s)) = suffix

input_kind(field_name) ==
    LET name == Lower(field_name) IN
    IF Contains(name, W_date) THEN "date"
    ELSE IF name = W_id \/ EndsWith(name, <<"_", "i", "d">>)
            \/ \E h \in NumericHints : Contains(name, h) THEN "numeric"
    ELSE IF name \in BooleanNames THEN "boolean"
    ELSE "text"

Option(label, value) == [label |-> label, value |-> value]

suggested_options(field_name) ==
    LET name == Lower(field_name) IN
    IF name = W_occurrence
    THEN << Option(<<"D", "a", "i", "l", "y">>, <<"1">>),
            Option(<<"W", "e", "e", "k", "l", "y">>, <<"2">>),
            Option(<<"M", "o", "n", "t", "h", "l", "y">>, <<"3">>),
            Option(<<"Q", "u", "a", "r", "t", "e", "r", "l", "y">>, <<"4">>) >>
    ELSE IF name \in BooleanNames
    THEN << Option(<<"Y", "e", "s">>, <<"1">>), Option(<<"N", "o">>, <<"0">>) >>
    ELSE <<>>

\* the collected_data block of every workflow payload the orchestrator builds
CollectedData(state) ==
    [operation |-> state.operation, table |-> state.table,
     required_fields |-> state.required_fields,
     collected_fields |-> state.collected_fields]

\* max(1, (len(remaining) + page_size - 1) // page_size)
TotalPages(n_remaining, page_size) ==
    Max(1, (n_remaining + page_size - 1) \div page_size)

\* returns <<message, payload>>; the message is kept as the values it renders
build_field_menu(state) ==
    With(remaining_fields(state.required_fields, state.collected_fields),
         LAMBDA remaining :
    With(TotalPages(Len(remaining), state.page_size), LAMBDA total_pages :
    With(Min(Max(0, state.page), total_pages - 1), LAMBDA page :
    With(Slice(remaining, page * state.page_size,
               page * state.page_size + state.page_size), LAMBDA page_fields :
    With(Strip(state.pending_field), LAMBDA pending :
       << [kind |-> "field_menu", table |-> state.table,
           n_remaining |-> Len(remaining), options |-> page_fields,
           page |-> page + 1, total_pages |-> total_pages, pending |-> pending],
          [workflow_id |-> "mutation_menu", completed |-> FALSE,
           next_field |-> pending, mode |-> "field_selection",
           pagination |-> [page |-> page + 1, page_size |-> state.page_size,
                           total_pages |-> total_pages],
           collected_data |-> CollectedData(state),
           ui |-> [type |-> "menu", options |-> page_fields]] >>)))))

build_value_prompt(state, field_name) ==
    << [kind |-> "value_prompt", table |-> state.table, field |-> field_name,
        options |-> suggested_options(field_name),
        input |-> input_kind(field_name)],
       [workflow_id |-> "mutation_menu", completed |-> FALSE,
        next_field |-> field_name, mode |-> "field_value",
        collected_data |-> CollectedData(state),
        ui |-> [type |-> "input", field |-> field_name,
                input |-> input_kind(field_name),
                options |-> suggested_options(field_name)]] >>

build_confirmation_prompt(state) ==
    << [kind |-> "confirmation", operation |-> state.operation,
        table |-> state.table, collected |-> state.collected_fields],
       [workflow_id |-> "mutation_menu", completed |-> FALSE,
        next_field |-> <<>>, mode |-> "confirmation",
        collected_data |-> CollectedData(state),
        ui |-> [type |-> "confirmation", actions |-> <<W_yes, W_no>>]] >>

\* the first field of remaining whose lowercased name is text
RECURSIVE FirstNamed(_, _)
FirstNamed(remaining, text) ==
    IF remaining = <<>> THEN <<>>
    ELSE IF Lower(Head(remaining)) = text THEN Head(remaining)
    ELSE FirstNamed(Tail(remaining), text)

\* a faulty variant of resolve_field_selection: a number always indexes the
\* first page
ResolveOnFirstPage(user_text, state) ==
    With(remaining_fields(state.required_fields, state.collected_fields),
         LAMBDA remaining :
    With(Lower(Strip(user_text)), LAMBDA text :
       IF text = <<>> THEN [raises |-> FALSE, field |-> <<>>]
       ELSE IF \E i \in 1..Len(remaining) : Lower(remaining[i]) = text
       THEN [raises |-> FALSE, field |-> FirstNamed(remaining, text)]
       ELSE IF IsDigit(text) /\ ~IntRaises(text) /\ 1 <= IntValue(text)
               /\ IntValue(text) <= Min(Len(remaining), state.page_size)
       THEN [raises |-> FALSE, field |-> remaining[IntValue(text)]]
       ELSE [raises |-> FALSE, field |-> <<>>]))

\* [raises |-> int() raised ValueError, field |-> the selected field, <<>> for None]
resolve_field_selection(user_text, state) ==
    With(remaining_fields(state.required_fields, state.collected_fields),
         LAMBDA remaining :
    With(Lower(Strip(user_text)), LAMBDA text :
    With(Slice(remaining, Max(0, state.page) * state.page_size,
               Max(0, state.page) * state.page_size + state.page_size),
         LAMBDA page_fields :
       IF text = <<>> THEN [raises |-> FALSE, field |-> <<>>]
       ELSE IF \E i \in 1..Len(remaining) : Lower(remaining[i]) = text
       THEN [raises |-> FALSE, field |-> FirstNamed(remaining, text)]
       ELSE IF IsDigit(text)
       THEN IF IntRaises(text) THEN [raises |-> TRUE, field |-> <<>>]
            ELSE IF 1 <= IntValue(text) /\ IntValue(text) <= Len(page_fields)
                 THEN [raises |-> FALSE, field |-> page_fields[IntValue(text)]]
                 ELSE [raises |-> FALSE, field |-> <<>>]
       ELSE [raises |-> FALSE, field |-> <<>>])))

is_command_like_input(text) ==
    \E token \in CommandTokens : Contains(Lower(text), token)

\* a faulty variant of parse_user_field_updates: a number is not taken as
\* the index of a suggested option
ParseWithoutOptionIndex(message, pending_field) ==
    IF parse_kv_pairs(message) # EmptyDict
    THEN [raises |-> FALSE, updates |-> parse_kv_pairs(message)]
    ELSE IF Strip(message) # <<>> /\ pending_field # <<>>
            /\ ~is_command_like_input(Strip(message))
    THEN [raises |-> FALSE, updates |-> <<<<pending_field, Strip(message)>>>>]
    ELSE [raises |-> FALSE, updates |-> EmptyDict]

\* [raises |-> int() raised ValueError, updates |-> dict]
parse_user_field_updates(message, pending_field) ==
    With(parse_kv_pairs(message), LAMBDA updates :
    With(Strip(message), LAMBDA text :
    With(suggested_options(pending_field), LAMBDA options :
       IF updates # EmptyDict THEN [raises |-> FALSE, updates |-> updates]
       ELSE IF text # <<>> /\ pending_field # <<>>
       THEN IF is_command_like_input(text)
            THEN [raises |-> FALSE, updates |-> EmptyDict]
            ELSE IF options # <<>> /\ IsDigit(text)
            THEN IF IntRaises(text) THEN [raises |-> TRUE, updates |-> EmptyDict]
                 ELSE IF 1 <= IntValue(text) /\ IntValue(text) <= Len(options)
                      THEN [raises |-> FALSE,
                            updates |-> <<<<pending_field, options[IntValue(text)].value>>>>]
                      ELSE [raises |-> FALSE, updates |-> <<<<pending_field, text>>>>]
            ELSE [raises |-> FALSE, updates |-> <<<<pending_field, text>>>>]
       ELSE [raises |-> FALSE, updates |-> EmptyDict])))

(***************************************************************************)
(* Responses                                                               *)
(***************************************************************************)
\* Python's None where a record is expected
None == [none |-> TRUE]

build_final_response(message, status, workflow_payload, sql_data) ==
    [type |-> "result", message |-> message, status |-> status,
     workflow |-> workflow_payload, sql |-> sql_data]

CancelMessage == [kind |-> "cancelled"]

\* the empty text, as a message
EmptyMessage == [kind |-> "empty"]

\* a faulty variant of MutationContext: the collected fields are dropped
ContextWithoutFields(mutation_state, collected_fields) ==
    [operation |-> mutation_state.operation, table |-> mutation_state.table,
     fields |-> EmptyDict]

\* request.metadata["mutation_context"] as set by the state machine
MutationContext(mutation_state, collected_fields) ==
    [operation |-> mutation_state.operation, table |-> mutation_state.table,
     fields |-> collected_fields]

(***************************************************************************)
(* ChatService._handle_active_mutation                                     *)
(* The outcome is                                                          *)
(*   kind  "response": a final response is returned,                       *)
(*         "proceed" : None is returned and mutation_context is set,       *)
(*         "raise"   : an exception leaves the handler;                    *)
(*   store the session's persisted mutation state after the call.          *)
(***************************************************************************)
Responded(store, message_payload) ==
    [kind |-> "response", store |-> store, ctx |-> None,
     resp |-> build_final_response(message_payload[1], "ok", message_payload[2], None)]

\* a faulty variant of Proceeds: the stored state is not deleted
ProceedsKeepingState(mutation_state, collected_fields) ==
    [kind |-> "proceed", store |-> mutation_state,
     ctx |-> [operation |-> mutation_state.operation, table |-> mutation_state.table,
              fields |-> collected_fields],
     resp |-> None]

Proceeds(mutation_state, collected_fields) ==
    [kind |-> "proceed", store |-> NoMutation,
     ctx |-> MutationContext(mutation_state, collected_fields), resp |-> None]

Raised(store) == [kind |-> "raise", store |-> store, ctx |-> None, resp |-> None]

\* a final response that shows the field menu of the state it persists
MenuReply(state) == Responded(state, build_field_menu(state))
\* ... the value prompt for field_name
ValuePromptReply(state, field_name) ==
    Responded(state, build_value_prompt(state, field_name))
\* ... the confirmation prompt
ConfirmationReply(state) == Responded(state, build_confirmation_prompt(state))

RECURSIVE AcceptUpdates(_, _, _)
\* the loop of chat_service.py:403-406: <<collected_fields, accepted_updates>>
AcceptUpdates(updates, required_fields, acc) ==
    IF updates = <<>> THEN acc
    ELSE IF InSeq(Head(updates)[1], required_fields) /\ Strip(Head(updates)[2]) # <<>>
         THEN AcceptUpdates(Tail(updates), required_fields,
                            <<Put(acc[1], Head(updates)[1], Strip(Head(updates)[2])),
                              acc[2] + 1>>)
         ELSE AcceptUpdates(Tail(updates), required_fields, acc)

\* a faulty variant of HandleFieldValue: the accepted values are stored but
\* the state keeps awaiting the value of the same field
FieldValueWithoutAdvance(mutation_state, user_text, pending_field, page, page_size) ==
    With(parse_user_field_updates(user_text, pending_field), LAMBDA parsed :
       IF parsed.raises THEN Raised(mutation_state)
       ELSE
    With(AcceptUpdates(parsed.updates, mutation_state.required_fields,
                       <<mutation_state.collected_fields, 0>>), LAMBDA acc :
       ValuePromptReply(
           [mutation_state EXCEPT !.pending_field = pending_field,
                                  !.awaiting = "field_value",
                                  !.page = page, !.page_size = page_size,
                                  !.collected_fields = acc[1]],
           pending_field)))

\* chat_service.py:400-434
HandleFieldValue(mutation_state, user_text, pending_field, page, page_size) ==
    With(parse_user_field_updates(user_text, pending_field), LAMBDA parsed :
       IF parsed.raises THEN Raised(mutation_state)
       ELSE
    With(AcceptUpdates(parsed.updates, mutation_state.required_fields,
                       <<mutation_state.collected_fields, 0>>), LAMBDA acc :
       IF acc[2] = 0
       THEN ValuePromptReply(
                [mutation_state EXCEPT !.pending_field = pending_field,
                                       !.awaiting = "field_value",
                                       !.page = page, !.page_size = page_size,
                                       !.collected_fields = acc[1]],
                pending_field)
       ELSE
    With(next_missing_field(mutation_state.required_fields, acc[1]),
         LAMBDA next_field :
       IF next_field # <<>>
       THEN MenuReply([mutation_state EXCEPT !.collected_fields = acc[1],
                                             !.pending_field = next_field,
                                             !.page = 0, !.page_size = page_size,
                                             !.awaiting = "field_selection"])
       ELSE ConfirmationReply(
                [mutation_state EXCEPT !.collected_fields = acc[1],
                                       !.page = 0, !.page_size = page_size,
                                       !.awaiting = "confirmation",
                                       !.pending_field = <<>>]))))

\* a faulty variant of MenuState: the page is stored as the menu numbers it,
\* from 1
MenuStateFromOne(mutation_state, new_page, page_size, pending_field) ==
    [mutation_state EXCEPT !.page = new_page + 1, !.page_size = page_size,
                           !.pending_field = pending_field,
                           !.awaiting = "field_selection"]

\* the state the field menu is shown for (chat_service.py:363-366, 371-374, 392-396)
MenuState(mutation_state, new_page, page_size, pending_field) ==
    [mutation_state EXCEPT !.page = new_page, !.page_size = page_size,
                           !.pending_field = pending_field,
                           !.awaiting = "field_selection"]

\* chat_service.py:359-398
HandleFieldSelection(mutation_state, user_text, pending_field, page, page_size, remaining) ==
    IF Lower(user_text) \in {W_next, W_more}
    THEN MenuReply(MenuState(mutation_state,
                             Min(page + 1, TotalPages(Len(remaining), page_size) - 1),
                             page_size, pending_field))
    ELSE IF Lower(user_text) \in {W_prev, W_back}
    THEN MenuReply(MenuState(mutation_state, Max(0, page - 1), page_size, pending_field))
    ELSE
    With(resolve_field_selection(user_text, mutation_state), LAMBDA selection :
       IF selection.raises THEN Raised(mutation_state)
       ELSE IF selection.field # <<>>
       THEN ValuePromptReply(
                [mutation_state EXCEPT !.pending_field = selection.field,
                                       !.awaiting = "field_value",
                                       !.page = page, !.page_size = page_size],
                selection.field)
       ELSE IF user_text # <<>> /\ ~is_command_like_input(user_text)
       THEN HandleFieldValue(mutation_state, user_text, pending_field, page, page_size)
       ELSE MenuReply(MenuState(mutation_state, page, page_size, pending_field)))

\* chat_service.py:436-458
HandleConfirmation(mutation_state, lower_text, page_size) ==
    IF lower_text \in YesWords
    THEN Proceeds(mutation_state, mutation_state.collected_fields)
    ELSE IF lower_text \in NoWords
    THEN MenuReply([mutation_state EXCEPT
                       !.awaiting = "field_selection",
                       !.pending_field =
                           next_missing_field(mutation_state.required_fields, EmptyDict),
                       !.page = 0, !.page_size = page_size])
    ELSE ConfirmationReply(mutation_state)

\* chat_service.py:339, 356-357: pending_field, or the first remaining field
PendingField(mutation_state, remaining) ==
    IF Strip(mutation_state.pending_field) = <<>>
    THEN remaining[1]
    ELSE Strip(mutation_state.pending_field)

\* chat_service.py:359-463: the dispatch on awaiting
Dispatch(mutation_state, user_text, pending_field, page, page_size, remaining) ==
    IF mutation_state.awaiting = "field_selection"
    THEN HandleFieldSelection(mutation_state, user_text, pending_field,
                              page, page_size, remaining)
    ELSE IF mutation_state.awaiting = "field_value"
    THEN HandleFieldValue(mutation_state, user_text, pending_field, page, page_size)
    ELSE IF mutation_state.awaiting = "confirmation"
    THEN HandleConfirmation(mutation_state, Lower(user_text), page_size)
    ELSE MenuReply([mutation_state EXCEPT !.awaiting = "field_selection"])

\* a faulty variant of handle_active_mutation: the words that cancel the
\* workflow are not looked for
HandleWithoutCancel(message, mutation_state) ==
    With(Strip(message), LAMBDA user_text :
    With(remaining_fields(mutation_state.required_fields,
                          mutation_state.collected_fields), LAMBDA remaining :
       IF remaining = <<>>
       THEN Proceeds(mutation_state, mutation_state.collected_fields)
       ELSE Dispatch(mutation_state, user_text,
                     PendingField(mutation_state, remaining),
                     Max(0, mutation_state.page),
                     Max(1, IF mutation_state.page_size = 0 THEN DefaultPageSize
                            ELSE mutation_state.page_size),
                     remaining)))

handle_active_mutation(message, mutation_state) ==
    With(Strip(message), LAMBDA user_text :
       IF Lower(user_text) \in CancelWords
       THEN [kind |-> "response", store |-> NoMutation, ctx |-> None,
             resp |-> build_final_response(CancelMessage, "ok", None, None)]
       ELSE
    With(remaining_fields(mutation_state.required_fields,
                          mutation_state.collected_fields), LAMBDA remaining :
       IF remaining = <<>>
       THEN Proceeds(mutation_state, mutation_state.collected_fields)
       ELSE Dispatch(mutation_state, user_text,
                     PendingField(mutation_state, remaining),
                     Max(0, mutation_state.page),
                     Max(1, IF mutation_state.page_size = 0 THEN DefaultPageSize
                            ELSE mutation_state.page_size),
                     remaining)))

(***************************************************************************)
(* Schema manifest (SchemaManifestService().manifest).  The manifest file  *)
(* is deployment data; the model carries a sample with one table that has  *)
(* important columns and explicit required create fields, and one that has *)
(* neither.                                                                *)
(***************************************************************************)
W_task == <<"t", "a", "s", "k">>
W_log == <<"l", "o", "g">>
W_title == <<"t", "i", "t", "l", "e">>
W_details_suffix == <<"_", "d", "e", "t", "a", "i", "l", "s">>
W_scheduler == <<"s", "c", "h", "e", "d", "u", "l", "e", "r">>
W_scheduler_details ==
    <<"s", "c", "h", "e", "d", "u", "l", "e", "r", "_", "d", "e", "t", "a", "i", "l", "s">>
W_scheduler_task_details ==
    <<"s", "c", "h", "e", "d", "u", "l", "e", "r", "_", "t", "a", "s", "k", "_",
      "d", "e", "t", "a", "i", "l", "s">>

\* table name -> [important_columns, required_fields, aliases], as the
\* manifest's "tables" mapping; the keys are listed in sorted() order
Manifest ==
    << <<W_log, [important_columns |-> <<>>, required_fields |-> <<>>,
                 aliases |-> <<>>]>>,
       <<W_task, [important_columns |-> <<W_title, W_active, W_company_id>>,
                  required_fields |-> <<W_title, W_active>>,
                  aliases |-> <<>>]>> >>

table_names == KeySet(Manifest)

table_meta(table) ==
    Get(Manifest, table, [important_columns |-> <<>>, required_fields |-> <<>>,
                          aliases |-> <<>>])

important_columns(table) == RangeOf(table_meta(table).important_columns)

DEFAULT_CREATE_EXCLUSIONS ==
    { W_id, <<"c", "r", "e", "a", "t", "e", "d", "_", "a", "t">>,
      <<"u", "p", "d", "a", "t", "e", "d", "_", "a", "t">>,
      <<"d", "e", "l", "e", "t", "e", "d", "_", "a", "t">>, W_is_active }

\* str.replace(old, new)
RECURSIVE Replace(_, _, _)
Replace(s, old, new) ==
    IF Len(s) < Len(old) THEN s
    ELSE IF SubSeq(s, 1, Len(old)) = old
         THEN new \o Replace(SubSeq(s, Len(old) + 1, Len(s)), old, new)
         ELSE <<Head(s)>> \o Replace(Tail(s), old, new)

SchedulerAliases ==
    << <<"s", "c", "h", "e", "d", "u", "l", "e">>,
       <<"s", "c", "h", "e", "d", "u", "l", "e", "s">>,
       W_scheduler,
       <<"s", "c", "h", "e", "d", "u", "l", "e", "r", "s">> >>

RECURSIVE LowerAll(_)
LowerAll(names) ==
    IF names = <<>> THEN <<>>
    ELSE (IF Strip(Head(names)) = <<>> THEN <<>> ELSE <<Lower(Head(names))>>)
         \o LowerAll(Tail(names))

\* the alias list; any() over it does not depend on the order or duplicates
aliases(table) ==
    LET low == Lower(table) IN
    RangeOf(<<low, Replace(low, <<"_">>, <<" ">>)>>
            \o (IF EndsWith(low, W_details_suffix)
                THEN <<Replace(low, W_details_suffix, <<>>)>> ELSE <<>>)
            \o LowerAll(table_meta(table).aliases)
            \o (IF Contains(low, W_scheduler) THEN SchedulerAliases ELSE <<>>))

RECURSIVE FirstAliased(_, _)
FirstAliased(tables, q) ==
    IF tables = <<>> THEN <<>>
    ELSE IF \E alias \in aliases(Head(tables)) : Contains(q, alias)
         THEN Head(tables)
         ELSE FirstAliased(Tail(tables), q)

resolve_table_from_query(query) ==
    LET q == Lower(query) IN
    IF q = <<>> THEN <<>> ELSE FirstAliased(Keys(Manifest), q)

RECURSIVE CreateFallback(_)
CreateFallback(columns) ==
    IF columns = <<>> THEN <<>>
    ELSE (IF Strip(Head(columns)) = <<>>
             \/ Strip(Head(columns)) \in DEFAULT_CREATE_EXCLUSIONS
          THEN <<>> ELSE <<Strip(Head(columns))>>)
         \o CreateFallback(Tail(columns))

RECURSIVE StripAll(_)
StripAll(names) ==
    IF names = <<>> THEN <<>>
    ELSE (IF Strip(Head(names)) = <<>> THEN <<>> ELSE <<Strip(Head(names))>>)
         \o StripAll(Tail(names))

required_create_fields(table) ==
    LET explicit_required == StripAll(table_meta(table).required_fields) IN
    IF explicit_required # <<>> THEN explicit_required
    ELSE CreateFallback(table_meta(table).important_columns)

(***************************************************************************)
(* Keyword fallbacks and table resolution                                  *)
(***************************************************************************)
\* re.search(r"\b(w1|w2|...)\b", q) for alternatives made of word characters
WordSearch(q, words) ==
    \E w \in words : \E i \in 1..(Len(q) - Len(w) + 1) :
        /\ SubSeq(q, i, i + Len(w) - 1) = w
        /\ (i = 1 \/ ~IsWordChar(q[i - 1]))
        /\ (i + Len(w) - 1 = Len(q) \/ ~IsWordChar(q[i + Len(w)]))

RouterKeywords ==
    { W_task, <<"a", "s", "s", "e", "t">>, <<"u", "s", "e", "r">>,
      <<"f", "a", "c", "i", "l", "i", "t", "y">>, <<"s", "e", "l", "e", "c", "t">>,
      <<"i", "n", "s", "e", "r", "t">>, <<"u", "p", "d", "a", "t", "e">>,
      <<"c", "r", "e", "a", "t", "e">>, <<"a", "d", "d">>, W_edit,
      <<"m", "o", "d", "i", "f", "y">>, <<"s", "h", "o", "w">>,
      <<"l", "i", "s", "t">>, <<"c", "o", "u", "n", "t">>, <<"g", "e", "t">>,
      <<"f", "i", "n", "d">> }

\* RouterService.fallback
router_fallback(query) ==
    IF WordSearch(Lower(Strip(query)), RouterKeywords) THEN "SQL" ELSE "CHAT"

InsertWords ==
    { <<"i", "n", "s", "e", "r", "t">>, <<"c", "r", "e", "a", "t", "e">>,
      <<"a", "d", "d">>, <<"n", "e", "w">> }
UpdateWords ==
    { <<"u", "p", "d", "a", "t", "e">>, W_edit, <<"m", "o", "d", "i", "f", "y">>,
      W_change, <<"s", "e", "t">> }

Intent(operation, table, fields) ==
    [operation |-> operation, table |-> table, fields |-> fields]

\* IntentService.fallback
intent_fallback(query) ==
    LET q == Lower(query) IN
    Intent(IF WordSearch(q, InsertWords) THEN "insert"
           ELSE IF WordSearch(q, UpdateWords) THEN "update" ELSE "select",
           <<>>, EmptyDict)

ScheduleWords ==
    { <<"s", "c", "h", "e", "d", "u", "l", "e">>, W_scheduler,
      <<"s", "c", "h", "e", "d", "u", "l", "e", "d">> }

\* MutationUnderstandingService.resolve_table
understanding_resolve_table(query, intent) ==
    LET q == Lower(Strip(query))
        intent_table == Strip(intent.table)
    IN IF intent_table # <<>> /\ intent_table \in table_names THEN intent_table
       ELSE IF WordSearch(q, ScheduleWords) /\ WordSearch(q, {W_task})
               /\ W_scheduler_task_details \in table_names
       THEN W_scheduler_task_details
       ELSE IF WordSearch(q, ScheduleWords) /\ W_scheduler_details \in table_names
       THEN W_scheduler_details
       ELSE resolve_table_from_query(q)

\* SQLBuilderService.resolve_table
resolve_table(query, intent) ==
    IF Strip(intent.table) \in table_names THEN Strip(intent.table)
    ELSE resolve_table_from_query(query)

HelpPhrases ==
    { <<"w", "h", "a", "t", " ", "c", "a", "n", " ", "y", "o", "u", " ", "d", "o">>,
      <<"h", "o", "w", " ", "c", "a", "n", " ", "y", "o", "u", " ", "h", "e", "l", "p">>,
      <<"c", "a", "p", "a", "b", "i", "l", "i", "t", "i", "e", "s">>,
      <<"h", "e", "l", "p">> }

DOMAIN_HINTS ==
    { W_task, <<"t", "a", "s", "k", "s">>, <<"a", "s", "s", "e", "t">>,
      <<"a", "s", "s", "e", "t", "s">>, <<"f", "a", "c", "i", "l", "i", "t", "y">>,
      <<"f", "a", "c", "i", "l", "i", "t", "i", "e", "s">>, <<"u", "s", "e", "r">>,
      <<"u", "s", "e", "r", "s">>, <<"c", "o", "m", "p", "a", "n", "y">>,
      <<"c", "h", "e", "c", "k", "l", "i", "s", "t">>, W_scheduler,
      <<"s", "q", "l">>, <<"d", "a", "t", "a", "b", "a", "s", "e">>,
      <<"t", "a", "g">>, <<"s", "e", "s", "s", "i", "o", "n">>,
      <<"q", "u", "e", "r", "y">>, <<"i", "n", "s", "e", "r", "t">>,
      <<"u", "p", "d", "a", "t", "e">>, <<"s", "e", "l", "e", "c", "t">>,
      <<"c", "o", "u", "n", "t">> }

is_domain_query(query) == \E hint \in DOMAIN_HINTS : Contains(Lower(query), hint)

(***************************************************************************)
(* SQLBuilderService.  A statement is kept as the record of its parts      *)
(* rather than as rendered text; by = "builder" marks the statements the   *)
(* service renders itself, by = "llm" those taken from the model's answer. *)
(***************************************************************************)
SKIP == [kind |-> "SKIP"]

\* re.fullmatch(r"[A-Za-z_][A-Za-z0-9_]*", name)
safe_ident(name) ==
    IF name # <<>> /\ IsIdentStart(name[1])
       /\ \A i \in 2..Len(name) : IsIdentChar(name[i])
    THEN name ELSE <<>>

RECURSIVE DoubleQuotes(_)
\* str.replace("'", "''")
DoubleQuotes(s) ==
    IF s = <<>> THEN <<>>
    ELSE (IF Head(s) = "'" THEN <<"'", "'">> ELSE <<Head(s)>>) \o DoubleQuotes(Tail(s))

\* _safe_value of a text value
safe_value(value) ==
    <<"'">> \o DoubleQuotes(StripChars(Strip(value), Quotes)) \o <<"'">>

\* _safe_value of the tenant id, an int
safe_number(n) == IntStr(n)

RECURSIVE InsertNormalized(_, _)
\* the loop of build_insert: column -> rendered value
InsertNormalized(fields, allowed) ==
    IF fields = <<>> THEN EmptyDict
    ELSE LET ident == safe_ident(Head(fields)[1])
             rest == InsertNormalized(Tail(fields), allowed)
         IN IF ident = <<>> \/ (allowed # {} /\ ident \notin allowed)
            THEN rest
            ELSE <<<<ident, safe_value(Head(fields)[2])>>>> \o Pop(rest, ident)

\* <<sql, err>>; company_id = 0 stands for an absent (falsy) tenant id
build_insert(table, fields, company_id) ==
    LET allowed == important_columns(table)
        normalized == InsertNormalized(fields, allowed)
        with_tenant ==
            IF W_company_id \in allowed /\ company_id # 0
               /\ ~Has(normalized, W_company_id)
            THEN normalized \o <<<<W_company_id, safe_number(company_id)>>>>
            ELSE normalized
    IN IF with_tenant = EmptyDict
       THEN <<None, [kind |-> "no_valid_fields"]>>
       ELSE <<[kind |-> "INSERT", by |-> "builder", table |-> table,
               assignments |-> with_tenant, where |-> EmptyDict], None>>

RECURSIVE AssignmentsWithId(_, _)
\* a faulty variant of UpdateAssignments: id and company_id are not kept out
\* of the SET list
AssignmentsWithId(fields, allowed) ==
    IF fields = <<>> THEN EmptyDict
    ELSE LET ident == safe_ident(Head(fields)[1])
             rest == AssignmentsWithId(Tail(fields), allowed)
         IN IF ident = <<>> \/ (allowed # {} /\ ident \notin allowed)
            THEN rest
            ELSE <<<<ident, safe_value(Head(fields)[2])>>>> \o Pop(rest, ident)

RECURSIVE UpdateAssignments(_, _)
\* the loop of build_update: column -> rendered value
UpdateAssignments(fields, allowed) ==
    IF fields = <<>> THEN EmptyDict
    ELSE LET ident == safe_ident(Head(fields)[1])
             rest == UpdateAssignments(Tail(fields), allowed)
         IN IF ident = <<>> \/ ident \in {W_id, W_company_id}
               \/ (allowed # {} /\ ident \notin allowed)
            THEN rest
            ELSE <<<<ident, safe_value(Head(fields)[2])>>>> \o Pop(rest, ident)

build_update(table, fields, company_id) ==
    LET allowed == important_columns(table)
        record_id == Get(fields, W_id, <<>>)
        updates == UpdateAssignments(fields, allowed)
        where == <<<<W_id, safe_value(record_id)>>>>
                 \o (IF W_company_id \in allowed /\ company_id # 0
                     THEN <<<<W_company_id, safe_value(safe_number(company_id))>>>>
                     ELSE <<>>)
    IN IF record_id = <<>> THEN <<None, [kind |-> "update_requires_id"]>>
       ELSE IF updates = EmptyDict THEN <<None, [kind |-> "update_requires_field"]>>
       ELSE <<[kind |-> "UPDATE", by |-> "builder", table |-> table,
               assignments |-> updates, where |-> where], None>>

\* LIMIT 100
SelectLimit == 100

\* the statement build_select falls back to
fallback_select(table, company_id) ==
    [kind |-> "SELECT", by |-> "builder", table |-> table, assignments |-> EmptyDict,
     where |-> IF company_id # 0 /\ W_company_id \in important_columns(table)
               THEN <<<<W_company_id, safe_value(safe_number(company_id))>>>>
               ELSE EmptyDict,
     limit |-> SelectLimit]

\* what the model may put in the "sql" key of its answer.  kind is the kind
\* of the statement, inner the kinds of the statements nested in it, limit
\* the number of its LIMIT clause (0: it has none)
LlmStatement(kind, inner, limit, parses, unknown_column) ==
    [kind |-> kind, by |-> "llm", inner |-> inner, limit |-> limit,
     parses |-> parses, unknown_column |-> unknown_column]

\* a SELECT that passes validation, one with a qualified column the schema
\* does not have, a DELETE, and text that does not parse
LlmStatements ==
    { LlmStatement("SELECT", {}, SelectLimit, TRUE, FALSE),
      LlmStatement("SELECT", {}, SelectLimit, TRUE, TRUE),
      LlmStatement("DELETE", {}, 0, TRUE, FALSE),
      LlmStatement("TEXT", {}, 0, FALSE, FALSE) }

\* build_select; llm_sql = None when every attempt failed or the answer
\* carried no usable "sql"
build_select(llm_sql, table, company_id) ==
    IF llm_sql # None THEN llm_sql ELSE fallback_select(table, company_id)

\* the parameters mutation_form_payload declares besides self
FormPayloadParams == {"table", "operation", "required_fields"}

\* a call raises TypeError when it passes a keyword the function does not declare
CallRaises(params, keywords) == ~(keywords \subseteq params)

mutation_form_payload(table, operation, required_fields) ==
    [workflow_id |-> "mutation_menu", completed |-> FALSE,
     collected_data |-> [operation |-> operation, table |-> table,
                         required_fields |-> required_fields],
     ui |-> [type |-> "form", fields |-> required_fields]]

RECURSIVE MissingFrom(_, _)
\* [f for f in required if f not in fields]
MissingFrom(required, fields) ==
    IF required = <<>> THEN <<>>
    ELSE (IF Has(fields, Head(required)) THEN <<>> ELSE <<Head(required)>>)
         \o MissingFrom(Tail(required), fields)

(***************************************************************************)
(* SQLBuilderNode.run.  The result is                                      *)
(*   [raises, sql_query, message, workflow_payload]                        *)
(* where message = None and workflow_payload = None mean that the node     *)
(* does not return that key.                                               *)
(***************************************************************************)
BuilderResult(sql_query, message, workflow_payload) ==
    [raises |-> FALSE, sql_query |-> sql_query, message |-> message,
     workflow_payload |-> workflow_payload]

BuilderRaises ==
    [raises |-> TRUE, sql_query |-> None, message |-> None, workflow_payload |-> None]

FromBuild(built) ==
    IF built[2] # None THEN BuilderResult(SKIP, built[2], None)
    ELSE BuilderResult(built[1], None, None)

\* sql_builder_node.py:36-82
\* sql_builder_node.py:52-68
InsertFromIntent(table, fields, company_id) ==
    With(required_create_fields(table), LAMBDA required :
    With(MissingFrom(required, fields), LAMBDA missing :
       IF required # <<>> /\ missing # <<>>
       THEN IF CallRaises(FormPayloadParams,
                          {"table", "operation", "required_fields", "collected_fields"})
            THEN BuilderRaises
            ELSE BuilderResult(SKIP, [kind |-> "step_by_step", field |-> missing[1]],
                               mutation_form_payload(table, "insert", required))
       ELSE FromBuild(build_insert(table, fields, company_id))))

\* sql_builder_node.py:70-80
UpdateFromIntent(table, fields, company_id) ==
    With(build_update(table, fields, company_id), LAMBDA update :
       IF update[2] # None
       THEN BuilderResult(SKIP, [kind |-> "update_hint", err |-> update[2]],
                          mutation_form_payload(table, "update", <<W_id, W_field_value>>))
       ELSE BuilderResult(update[1], None, None))

\* sql_builder_node.py:36-82
BuildFromIntent(query, intent, company_id, llm_sql) ==
    With(IF intent = None THEN Intent("select", <<>>, EmptyDict) ELSE intent,
         LAMBDA the_intent :
    With(resolve_table(query, the_intent), LAMBDA table :
       IF table = <<>> THEN BuilderResult(SKIP, [kind |-> "mention_table"], None)
       ELSE
    With(Update(the_intent.fields, parse_kv_pairs(query)), LAMBDA fields :
       IF the_intent.operation = "insert"
       THEN InsertFromIntent(table, fields, company_id)
       ELSE IF the_intent.operation = "update"
       THEN UpdateFromIntent(table, fields, company_id)
       ELSE BuilderResult(build_select(llm_sql, table, company_id), None, None))))

\* sql_builder_node.py:12-34, then the intent path
sql_builder_run(query, intent, company_id, mutation_context, llm_sql) ==
    IF mutation_context # None /\ mutation_context.operation = "insert"
       /\ Strip(mutation_context.table) # <<>>
    THEN FromBuild(build_insert(Strip(mutation_context.table),
                                mutation_context.fields, company_id))
    ELSE IF mutation_context # None /\ mutation_context.operation = "update"
            /\ Strip(mutation_context.table) # <<>>
    THEN FromBuild(build_update(Strip(mutation_context.table),
                                mutation_context.fields, company_id))
    ELSE BuildFromIntent(query, intent, company_id, llm_sql)

(***************************************************************************)
(* SQLValidatorService.validate_sql on the parse of a statement.           *)
(* schema_known: get_table_columns delivered the columns of its tables.    *)
(***************************************************************************)
forbidden_commands == {"DROP", "DELETE", "ALTER", "CREATE"}

\* what sqlglot.parse_one yields: [ok, kinds of all nodes, duplicate alias,
\* qualified column unknown to the schema]
Parse(sql) ==
    IF sql.by = "builder"
    THEN [ok |-> TRUE, root |-> sql.kind, nodes |-> {sql.kind},
          unknown_column |-> FALSE]
    ELSE [ok |-> sql.parses, root |-> sql.kind, nodes |-> {sql.kind} \cup sql.inner,
          unknown_column |-> sql.unknown_column]

validate_sql(sql, schema_known) ==
    LET parsed == Parse(sql) IN
    /\ parsed.ok
    /\ parsed.root \notin forbidden_commands
    /\ parsed.nodes \cap forbidden_commands = {}
    /\ ~(schema_known /\ parsed.unknown_column)

(***************************************************************************)
(* Execution errors and their recognition (chat_service.py:312-320).       *)
(* An error is the text class of str(exc) and the column it quotes.        *)
(***************************************************************************)
DbError(pattern, column) == [kind |-> "db", pattern |-> pattern, column |-> column]
ValidationError == [kind |-> "validation"]

\* re.search(r"for column '([^']+)'", error)
extract_invalid_column(error) ==
    IF error.kind = "db" /\ error.pattern = "invalid_value"
    THEN Strip(error.column) ELSE <<>>

\* re.search(r"Field '([^']+)' doesn't have a default value", error)
extract_missing_required_column(error) ==
    IF error.kind = "db" /\ error.pattern = "missing_default"
    THEN Strip(error.column) ELSE <<>>

\* ResponseNode.run
response_message(error, sql_query, row_count) ==
    IF error # None THEN [kind |-> "failed_safely", error |-> error]
    ELSE IF sql_query # None /\ sql_query.kind = "INSERT"
    THEN [kind |-> "insert_ok", count |-> row_count]
    ELSE IF sql_query # None /\ sql_query.kind = "UPDATE"
    THEN [kind |-> "update_ok", count |-> row_count]
    ELSE IF row_count = 0 THEN [kind |-> "no_records"]
    ELSE [kind |-> "found", count |-> row_count]

(***************************************************************************)
(* Orchestrator helpers of generate_chat_stream                            *)
(***************************************************************************)
HistoryLimit == 20

\* cache.generate_key("chat", session_id, len(history), message): the
\* arguments are concatenated without separators and hashed; SHA-256 is
\* taken as injective, so the key is the concatenation itself
generate_key(session_id, history_length, message) ==
    session_id \o IntStr(history_length) \o message

\* an entry of the history.  Its content is kept as the number of the turn
\* that appended it: the message of that turn in a user entry, the message of
\* its response in an assistant entry
Entry(role, turn) == [role |-> role, turn |-> turn]

\* a faulty variant of Trimmed: the history is kept whole
Untrimmed(history) == history

\* history[-20:]
Trimmed(history) ==
    IF Len(history) <= HistoryLimit THEN history
    ELSE SubSeq(history, Len(history) - HistoryLimit + 1, Len(history))

\* _save_history after extending with the user and the assistant entry
Extended(history, turn) ==
    Trimmed(history \o <<Entry("user", turn), Entry("assistant", turn)>>)

TokenRecord(content) == [type |-> "token", content |-> content]
ErrorRecord(message) == [type |-> "error", message |-> message]

\* a faulty variant of recovery: the quoted column is not added to the
\* required fields
RecoveryWithoutRequiring(mutation_context, error) ==
    LET invalid_column ==
            IF error = None THEN <<>> ELSE extract_invalid_column(error)
        missing_required_column ==
            IF error = None THEN <<>> ELSE extract_missing_required_column(error)
        target_column ==
            IF invalid_column # <<>> THEN invalid_column ELSE missing_required_column
        fields == IF mutation_context = None THEN EmptyDict
                  ELSE mutation_context.fields
    IN IF error # None /\ mutation_context # None /\ target_column # <<>>
       THEN [applies |-> TRUE, column |-> target_column,
             state |-> MutationState(mutation_context.operation,
                                     mutation_context.table, Keys(fields),
                                     fields, target_column,
                                     "field_value", 0, DefaultPageSize)]
       ELSE [applies |-> FALSE, column |-> <<>>, state |-> NoMutation]

\* chat_service.py:550-583; applies = the recovery block runs
recovery(mutation_context, error) ==
    LET invalid_column ==
            IF error = None THEN <<>> ELSE extract_invalid_column(error)
        missing_required_column ==
            IF error = None THEN <<>> ELSE extract_missing_required_column(error)
        target_column ==
            IF invalid_column # <<>> THEN invalid_column ELSE missing_required_column
        fields == IF mutation_context = None THEN EmptyDict
                  ELSE mutation_context.fields
        mutation_fields ==
            IF invalid_column # <<>> THEN Pop(fields, target_column) ELSE fields
        existing_required ==
            IF InSeq(target_column, Keys(fields)) THEN Keys(fields)
            ELSE Keys(fields) \o <<target_column>>
    IN IF error # None /\ mutation_context # None /\ target_column # <<>>
       THEN [applies |-> TRUE, column |-> target_column,
             state |-> MutationState(mutation_context.operation,
                                     mutation_context.table, existing_required,
                                     mutation_fields, target_column,
                                     "field_value", 0, DefaultPageSize)]
       ELSE [applies |-> FALSE, column |-> <<>>, state |-> NoMutation]

\* a faulty variant of passthrough_state: the state awaits a value
PassthroughAwaitingValue(workflow_payload) ==
    MutationState(workflow_payload.collected_data.operation,
                  workflow_payload.collected_data.table,
                  workflow_payload.collected_data.required_fields,
                  EmptyDict,
                  next_missing_field(workflow_payload.collected_data.required_fields,
                                     EmptyDict),
                  "field_value", 0, DefaultPageSize)

\* chat_service.py:585-611, the state materialized from a workflow payload
passthrough_state(workflow_payload) ==
    LET collected_data == workflow_payload.collected_data
        required_fields == collected_data.required_fields
        collected_fields ==
            IF "collected_fields" \in DOMAIN collected_data
            THEN collected_data.collected_fields ELSE EmptyDict
        given == IF "next_field" \in DOMAIN workflow_payload
                 THEN Strip(workflow_payload.next_field) ELSE <<>>
        next_field == IF given # <<>> THEN given
                      ELSE next_missing_field(required_fields, collected_fields)
    IN MutationState(collected_data.operation, collected_data.table,
                     required_fields, collected_fields, next_field,
                     "field_selection", 0, DefaultPageSize)

\* chat_service.py:545-583: final_message, workflow_payload, error and
\* executed_sql after the recovery block
AfterRecovery(agent_state, rec) ==
    IF rec.applies
    THEN With(build_value_prompt(rec.state, rec.column), LAMBDA prompt :
            [message |-> prompt[1], workflow_payload |-> prompt[2],
             error |-> None, sql_query |-> None])
    ELSE [message |-> agent_state.message,
          workflow_payload |-> agent_state.workflow_payload,
          error |-> agent_state.error, sql_query |-> agent_state.sql_query]

\* chat_service.py:585: the payload makes the turn materialize a state
PassesThrough(workflow_payload) ==
    workflow_payload # None /\ ~workflow_payload.completed

\* chat_service.py:618-627
SqlData(executed_sql, row_count) ==
    IF executed_sql # None /\ executed_sql # SKIP
    THEN [ran |-> TRUE, cached |-> FALSE, query |-> executed_sql,
          row_count |-> row_count]
    ELSE None

\* chat_service.py:545-649: what the orchestrator makes of the graph result
\*   store     the session's mutation state after the turn,
\*   column    the column the recovery block persisted a state for, or <<>>,
\*   response  the final response,
\*   cacheable the conditions of line 638 hold
Outcome(agent_state, mutation_context, stored, use_cache) ==
    With(recovery(mutation_context, agent_state.error), LAMBDA rec :
    With(AfterRecovery(agent_state, rec), LAMBDA after :
    With(IF PassesThrough(after.workflow_payload)
         THEN passthrough_state(after.workflow_payload) ELSE NoMutation,
         LAMBDA state :
    With(IF state.present THEN build_field_menu(state)
         ELSE <<after.message, after.workflow_payload>>, LAMBDA shown :
       [store |-> IF state.present THEN state
                  ELSE IF rec.applies THEN rec.state ELSE stored,
        column |-> rec.column,
        response |-> build_final_response(shown[1],
                                          IF after.error # None THEN "error" ELSE "ok",
                                          shown[2],
                                          SqlData(after.sql_query, agent_state.row_count)),
        cacheable |-> after.error = None /\ use_cache /\ shown[2] = None]))))

(***************************************************************************)
(* Bounds and input alphabets                                              *)
(***************************************************************************)
\* turns of the session that are explored
MaxTurns == 3
\* entries the response cache may hold.  The key carries the length of the
\* history, which every turn that writes the cache extends, so no turn of a
\* session finds an entry before the history is full (HistoryLimit).
MaxCached == 0

SessionIds == { <<"s">> }

M_yes == <<" ", "Y", "e", "s">>
M_no == W_no
M_one == <<"1">>
M_two == <<"2">>
M_superscript_two == <<"^2">>
M_ab == <<"a", "b">>
M_forget_it == <<"f", "o", "r", "g", "e", "t", " ", "i", "t">>
M_add_task == <<"a", "d", "d", " ", "t", "a", "s", "k">>

Messages ==
    { M_yes, M_no, W_cancel, M_one, M_two, M_superscript_two, M_ab, M_forget_it,
      M_add_task }

\* metadata.mutation_context as a client may send it (ChatRequest.metadata,
\* x-user-context); None = the key is absent
ClientContexts ==
    { None,
      [operation |-> "insert", table |-> W_task, fields |-> <<<<W_title, M_ab>>>>],
      [operation |-> "insert", table |-> W_task,
       fields |-> <<<<W_title, M_ab>>, <<W_active, M_one>>>>] }

\* metadata.company_id; 0 = absent
CompanyIds == {0}

\* the parsed answer of the intent model; None = no usable answer
LlmIntents ==
    { None, Intent("select", W_task, EmptyDict), Intent("insert", W_task, EmptyDict),
      Intent("insert", W_task, <<<<W_title, M_ab>>, <<W_active, M_one>>>>),
      Intent("update", W_task, EmptyDict),
      Intent("update", W_task, <<<<W_id, <<"7">>>>, <<W_title, M_ab>>>>) }

\* the columns an execution error may quote
ErrorColumns == {W_title, W_active}

\* what conn.execute does: a row count, or an exception
DbOutcomes ==
    { [ok |-> TRUE, count |-> n, error |-> None] : n \in {0, 1} }
    \cup { [ok |-> FALSE, count |-> 0, error |-> DbError(p, c)] :
             p \in {"invalid_value", "missing_default"}, c \in ErrorColumns }
    \cup { [ok |-> FALSE, count |-> 0, error |-> DbError("other", <<>>)] }

(***************************************************************************)
(* State                                                                   *)
(***************************************************************************)
VARIABLES
    workflow,        \* lifespan.workflow is set
    mutation_store,  \* session id -> persisted mutation state
    history_store,   \* session id -> persisted history
    response_cache,  \* response-cache key -> cached final response
    pc,              \* "idle", the graph node about to run, "end", "failed"
    request,         \* the request of the current (last) turn
    loaded,          \* the mutation state that turn loaded
    agent,           \* the graph's agent state
    visited,         \* the nodes the graph ran in this turn, in order
    executed,        \* the statements sql_execute sent to the database
    stream,          \* the NDJSON records the turn has emitted
    turns,           \* number of turns started
    turn_log,        \* <<facts of the turn before, facts of this turn>>
    call,            \* a service function applied on its own: arguments and result
    retry,           \* a run of ainvoke_with_retry on its own
    inflight         \* requests that overlap on one session: where each one is

vars == <<workflow, mutation_store, history_store, response_cache, pc, request,
          loaded, agent, visited, executed, stream, turns, turn_log, call, retry,
                   inflight>>

\* the variables of a chat session
session_vars ==
    <<workflow, mutation_store, history_store, response_cache, pc, request,
      loaded, agent, visited, executed, stream, turns, turn_log>>

NoRequest ==
    [session_id |-> <<>>, message |-> <<>>,
     metadata |-> [mutation_context |-> None, company_id |-> 0]]

AgentState(message, route, intent, sql_query, error, workflow_payload, row_count) ==
    [message |-> message, route |-> route, intent |-> intent,
     sql_query |-> sql_query, error |-> error,
     workflow_payload |-> workflow_payload, row_count |-> row_count]

NoAgent == AgentState(None, "", None, None, None, None, 0)

\* recovered: the column recovery persisted a state for in the turn;
\* accepted:  <<field, value>> stored by the turn for the column the turn
\*            before recovered, or <<>>
TurnFacts(recovered, accepted) == [recovered |-> recovered, accepted |-> accepted]

NoFacts == TurnFacts(<<>>, <<>>)

Init ==
    /\ workflow = FALSE
    /\ mutation_store = [s \in SessionIds |-> NoMutation]
    /\ history_store = [s \in SessionIds |-> <<>>]
    /\ response_cache = EmptyDict
    /\ pc = "idle"
    /\ request = NoRequest
    /\ loaded = NoMutation
    /\ agent = NoAgent
    /\ visited = <<>>
    /\ executed = <<>>
    /\ stream = <<>>
    /\ turns = 0
    /\ turn_log = <<NoFacts, NoFacts>>
    /\ call = None
    /\ retry = None
    /\ inflight = <<>>

\* lifespan(): create_graph()
Startup ==
    /\ ~workflow
    /\ pc = "idle"
    /\ workflow' = TRUE
    /\ UNCHANGED <<mutation_store, history_store, response_cache, pc, request,
                   loaded, agent, visited, executed, stream, turns, turn_log,
                   call, retry,
                   inflight>>

(***************************************************************************)
(* generate_chat_stream up to workflow.ainvoke (chat_service.py:468-543)   *)
(***************************************************************************)
\* the handler is not called: no workflow, or no mutation state is stored
Skipped(store) == [kind |-> "skipped", store |-> store, ctx |-> None, resp |-> None]

\* a faulty variant of UseCache: a mutation_context in the metadata does not
\* switch the cache off
UseCacheIgnoringContext(mutation_state, client_context) ==
    ~mutation_state.present

\* what the Redis backend does during the handler: every operation succeeds,
\* or the keys are read and written but a delete fails
RedisModes == {"up", "delete_fails"}

\* _clear_mutation_state (chat_service.py:43-44) in the handler: it is called
\* on the paths that leave no stored state (lines 331, 346, 438);
\* cache.delete (cache.py:74-77) has no try, so a failing delete raises out
\* of the handler and the state stays stored
Cleared(result, stored, redis) ==
    IF redis = "delete_fails" /\ result.kind # "raise" /\ ~result.store.present
    THEN Raised(stored)
    ELSE result

\* chat_service.py:497
UseCache(mutation_state, client_context) ==
    ~mutation_state.present /\ client_context = None

(***************************************************************************)
(* The session store.  A value lives in Redis under the key that           *)
(* cache.generate_key makes of its prefix and the session id               *)
(* (chat_service.py:18-44); SHA-256 is taken as injective, so a key is the *)
(* prefix with the hashed payload itself.  mutation_store and              *)
(* history_store hold, for each session, the value under its key: what is  *)
(* saved for one session is the value of every session with the same key.  *)
(***************************************************************************)
\* a faulty variant of mutation_key: the session id is left out of the key
MutationKeyWithoutSession(session_id) == <<"mutation_state", <<>>>>

\* _mutation_key
mutation_key(session_id) == <<"mutation_state", session_id>>

\* _history_key
history_key(session_id) == <<"history", session_id>>

\* cache.get
Stored(store, keys, session_id) ==
    store[CHOOSE s \in DOMAIN store : keys[s] = keys[session_id]]

\* cache.set: the value under the key of the session, the others as they were
Saved(store, keys, session_id, value) ==
    [s \in DOMAIN store |->
        IF keys[s] = keys[session_id] THEN value ELSE store[s]]

\* the cache keys of the sessions that have an entry
mutation_keys == [s \in DOMAIN mutation_store |-> mutation_key(s)]

history_keys == [s \in DOMAIN history_store |-> history_key(s)]

load_mutation_state(session_id) == Stored(mutation_store, mutation_keys, session_id)

save_mutation_state(session_id, state) ==
    Saved(mutation_store, mutation_keys, session_id, state)

load_history(session_id) == Stored(history_store, history_keys, session_id)

save_history(session_id, history) ==
    Saved(history_store, history_keys, session_id, history)

\* the way the turn leaves the prelude
Branch(result, session_id, message, client_context) ==
    IF ~workflow THEN "not_initialized"
    ELSE IF result.kind = "raise" THEN "raised"
    ELSE IF result.kind = "response" THEN "replied"
    ELSE IF UseCache(load_mutation_state(session_id), client_context)
            /\ Has(response_cache,
                   generate_key(session_id, Len(load_history(session_id)), message))
    THEN "cached"
    ELSE "graph"

\* a faulty variant of CachedResponse: the sql data is not marked
CachedUnmarked(cache_key) == Get(response_cache, cache_key, None)

\* chat_service.py:500-504: the cached response, marked as served from cache
CachedResponse(cache_key) ==
    With(Get(response_cache, cache_key, None), LAMBDA cached :
       IF cached.sql = None THEN cached
       ELSE [cached EXCEPT !.sql = [cached.sql EXCEPT !.cached = TRUE]])

\* chat_service.py:506-510: the content of the token of a cache hit
CachedToken(cached) ==
    IF cached.message # EmptyMessage THEN cached.message
    ELSE [kind |-> "processed_from_cache"]

\* <<column, value>> when the handler stored a value for the column the turn
\* before had recovered, <<>> otherwise
Accepted(column, before, result) ==
    IF result.kind = "response" /\ column # <<>> /\ result.store.present
       /\ IsMissing(before.collected_fields, column)
       /\ ~IsMissing(result.store.collected_fields, column)
    THEN <<column, Get(result.store.collected_fields, column, <<>>)>>
    ELSE <<>>

ReceiveRequest(session_id, message, client_context, company_id, redis) ==
    /\ pc = "idle"
    /\ turns < MaxTurns
    /\ \E result \in
          { IF workflow /\ load_mutation_state(session_id).present
            THEN Cleared(handle_active_mutation(message, load_mutation_state(session_id)),
                         load_mutation_state(session_id), redis)
            ELSE Skipped(load_mutation_state(session_id)) } :
       \E branch \in { Branch(result, session_id, message, client_context) } :
          /\ turns' = turns + 1
          /\ request' = [session_id |-> session_id, message |-> message,
                         metadata |->
                             [mutation_context |-> IF result.kind = "proceed"
                                                   THEN result.ctx ELSE client_context,
                              company_id |-> company_id]]
          /\ loaded' = IF workflow THEN load_mutation_state(session_id) ELSE NoMutation
          /\ mutation_store' = save_mutation_state(session_id, result.store)
          /\ stream' =
               IF branch = "not_initialized" THEN <<ErrorRecord("not_initialized")>>
               ELSE IF branch = "replied"
               THEN <<TokenRecord(result.resp.message), result.resp>>
               ELSE IF branch = "cached"
               THEN With(CachedResponse(generate_key(session_id,
                                                     Len(load_history(session_id)),
                                                     message)),
                         LAMBDA cached : <<TokenRecord(CachedToken(cached)), cached>>)
               ELSE <<>>
          /\ history_store' =
               IF branch \in {"replied", "cached"}
               THEN save_history(session_id, Extended(load_history(session_id), turns'))
               ELSE history_store
          /\ pc' = IF branch = "graph" THEN "route" ELSE "idle"
          /\ agent' = NoAgent
          /\ visited' = <<>>
          /\ executed' = <<>>
          /\ turn_log' = <<turn_log[2],
                           TurnFacts(<<>>, Accepted(turn_log[2].recovered,
                                                    load_mutation_state(session_id),
                                                    result))>>
          /\ UNCHANGED <<workflow, response_cache, call, retry,
                   inflight>>

(***************************************************************************)
(* The graph (graph.py:34-57): conditional edges, then one action per node *)
(***************************************************************************)
after_route(state) == IF state.route = "CHAT" THEN "chat" ELSE "intent"
after_sql_build(state) == IF state.sql_query = SKIP THEN "end" ELSE "sql_validate"
\* a faulty variant of after_sql_validate: the error is not looked at
AlwaysExecute(state) == "sql_execute"
after_sql_validate(state) == IF state.error # None THEN "respond" ELSE "sql_execute"

Query == request.message
Metadata == request.metadata

\* the variables a node leaves alone
NodeFrame ==
    UNCHANGED <<workflow, mutation_store, history_store, response_cache, request,
                loaded, stream, turns, turn_log, call, retry,
                   inflight>>

\* a faulty variant of RouteNode: the router service is consulted although
\* the metadata carries a mutation_context
RouteWithoutOverride(llm_route) ==
    LET route == IF llm_route \in {"SQL", "CHAT"} THEN llm_route
                 ELSE router_fallback(Query)
        state == [agent EXCEPT !.route = route]
    IN /\ pc = "route"
       /\ agent' = state
       /\ visited' = Append(visited, "route")
       /\ pc' = after_route(state)
       /\ UNCHANGED executed
       /\ NodeFrame

\* RouterNode.run; llm_route = "" when the router model gave no usable answer
RouteNode(llm_route) ==
    LET route == IF Metadata.mutation_context # None THEN "SQL"
                 ELSE IF llm_route \in {"SQL", "CHAT"} THEN llm_route
                 ELSE router_fallback(Query)
        state == [agent EXCEPT !.route = route]
    IN /\ pc = "route"
       /\ agent' = state
       /\ visited' = Append(visited, "route")
       /\ pc' = after_route(state)
       /\ UNCHANGED executed
       /\ NodeFrame

\* what llm.ainvoke does in the chat node: it raises, it returns a reply, or
\* it returns a response without content
ChatAnswers == {"raises", "reply", "empty"}

\* ChatNode.run
ChatNode(llm_answer) ==
    LET q == Strip(Query)
        canned == WordSearch(Lower(q), HelpPhrases) \/ ~is_domain_query(q)
        message == IF WordSearch(Lower(q), HelpPhrases) THEN [kind |-> "capabilities"]
                   ELSE IF ~is_domain_query(q) THEN [kind |-> "out_of_domain"]
                   ELSE IF llm_answer = "empty" THEN EmptyMessage
                   ELSE [kind |-> "chat_reply"]
    IN /\ pc = "chat"
       /\ visited' = Append(visited, "chat")
       /\ IF ~canned /\ llm_answer = "raises"
          THEN pc' = "failed" /\ agent' = agent
          ELSE pc' = "end" /\ agent' = [agent EXCEPT !.message = message]
       /\ UNCHANGED executed
       /\ NodeFrame

\* IntentNode.run
IntentNode(llm_intent) ==
    /\ pc = "intent"
    /\ agent' = [agent EXCEPT !.intent = IF llm_intent # None THEN llm_intent
                                         ELSE intent_fallback(Query)]
    /\ visited' = Append(visited, "intent")
    /\ pc' = "mutation_understand"
    /\ UNCHANGED executed
    /\ NodeFrame

\* MutationUnderstandingNode.run
MutationUnderstandNode ==
    /\ pc = "mutation_understand"
    /\ \E resolved_table \in { understanding_resolve_table(Query, agent.intent) } :
          agent' = IF agent.intent.operation \in {"insert", "update"}
                      /\ resolved_table # <<>>
                   THEN [agent EXCEPT !.intent.table = resolved_table]
                   ELSE agent
    /\ visited' = Append(visited, "mutation_understand")
    /\ pc' = "sql_build"
    /\ UNCHANGED executed
    /\ NodeFrame

\* SQLBuilderNode.run
SqlBuildNode(llm_sql) ==
    /\ pc = "sql_build"
    /\ visited' = Append(visited, "sql_build")
    /\ \E built \in { sql_builder_run(Query, agent.intent, Metadata.company_id,
                                       Metadata.mutation_context, llm_sql) } :
          IF built.raises
          THEN pc' = "failed" /\ agent' = agent
          ELSE \E state \in
                  { [agent EXCEPT
                       !.sql_query = built.sql_query,
                       !.message = IF built.message # None THEN built.message ELSE @,
                       !.workflow_payload = built.workflow_payload] } :
                  pc' = after_sql_build(state) /\ agent' = state
    /\ UNCHANGED executed
    /\ NodeFrame

\* SQLValidateNode.run
SqlValidateNode(schema_known) ==
    LET error == IF agent.sql_query \in {None, SKIP} THEN None
                 ELSE IF validate_sql(agent.sql_query, schema_known) THEN None
                 ELSE ValidationError
        state == [agent EXCEPT !.error = error]
    IN /\ pc = "sql_validate"
       /\ agent' = state
       /\ visited' = Append(visited, "sql_validate")
       /\ pc' = after_sql_validate(state)
       /\ UNCHANGED executed
       /\ NodeFrame

\* SQLExecuteNode.run
SqlExecuteNode(outcome) ==
    LET runs == agent.error = None /\ agent.sql_query \notin {None, SKIP} IN
    /\ pc = "sql_execute"
    /\ executed' = IF runs THEN Append(executed, agent.sql_query) ELSE executed
    /\ agent' = IF ~runs THEN agent
                ELSE IF outcome.ok
                THEN [agent EXCEPT !.row_count = outcome.count, !.error = None]
                ELSE [agent EXCEPT !.error = outcome.error]
    /\ visited' = Append(visited, "sql_execute")
    /\ pc' = "respond"
    /\ NodeFrame

\* ResponseNode.run
RespondNode ==
    /\ pc = "respond"
    /\ agent' = [agent EXCEPT
                   !.message = response_message(agent.error, agent.sql_query,
                                                agent.row_count)]
    /\ visited' = Append(visited, "respond")
    /\ pc' = "end"
    /\ UNCHANGED executed
    /\ NodeFrame

(***************************************************************************)
(* generate_chat_stream after workflow.ainvoke (chat_service.py:545-653)   *)
(***************************************************************************)
\* cache_set: cache.set stored the response (it returns False, and stores
\* nothing, when the Redis call fails)
FinishTurn(cache_set) ==
    /\ pc = "end"
    /\ \E session_id \in { request.session_id } :
       \E out \in { Outcome(agent, Metadata.mutation_context,
                            load_mutation_state(session_id),
                            UseCache(loaded, Metadata.mutation_context)) } :
          /\ mutation_store' = save_mutation_state(session_id, out.store)
          /\ stream' = <<TokenRecord(out.response.message), out.response>>
          /\ response_cache' =
               IF out.cacheable /\ cache_set
               THEN Put(response_cache,
                        generate_key(session_id, Len(load_history(session_id)), Query),
                        out.response)
               ELSE response_cache
          /\ history_store' =
               save_history(session_id, Extended(load_history(session_id), turns))
          /\ turn_log' = <<turn_log[1], TurnFacts(out.column, turn_log[2].accepted)>>
    /\ pc' = "idle"
    /\ UNCHANGED <<workflow, request, loaded, agent, visited, executed, turns,
                   call, retry,
                   inflight>>

\* the except branch: the graph raised
TurnFailed ==
    /\ pc = "failed"
    /\ stream' = <<ErrorRecord("exception")>>
    /\ pc' = "idle"
    /\ UNCHANGED <<workflow, mutation_store, history_store, response_cache, request,
                   loaded, agent, visited, executed, turns, turn_log, call, retry,
                   inflight>>

Next ==
    \/ Startup
    \/ \E session_id \in SessionIds, message \in Messages,
          client_context \in ClientContexts, company_id \in CompanyIds :
          ReceiveRequest(session_id, message, client_context, company_id, "up")
    \/ \E llm_route \in {"SQL", "CHAT", ""} : RouteNode(llm_route)
    \/ \E llm_answer \in {"raises", "reply"} : ChatNode(llm_answer)
    \/ \E llm_intent \in LlmIntents : IntentNode(llm_intent)
    \/ MutationUnderstandNode
    \/ \E llm_sql \in LlmStatements \cup {None} : SqlBuildNode(llm_sql)
    \/ \E schema_known \in BOOLEAN : SqlValidateNode(schema_known)
    \/ \E outcome \in DbOutcomes : SqlExecuteNode(outcome)
    \/ RespondNode
    \/ \E cache_set \in BOOLEAN :
          (cache_set => Len(response_cache) < MaxCached) /\ FinishTurn(cache_set)
    \/ TurnFailed

Spec == Init /\ [][Next]_vars

(***************************************************************************)
(* Properties.  A turn starts with ReceiveRequest; request and loaded keep  *)
(* the message and the mutation state that turn loaded, visited and         *)
(* executed what the graph did in it, stream what it emitted.               *)
(***************************************************************************)
TurnStarted == turns > 0
\* workflow.ainvoke was called in the current turn
GraphInvoked == pc # "idle" \/ visited # <<>>
\* the current turn has returned
TurnOver == TurnStarted /\ pc = "idle"
\* the turn ended in the prelude with the handler's reply (or its exception)
HandledInPrelude == TurnOver /\ visited = <<>> /\ loaded.present
UserText == Strip(request.message)
LowerText == Lower(UserText)
StoredState == mutation_store[request.session_id]
TurnContext == request.metadata.mutation_context
ConfirmedYes ==
    loaded.present /\ loaded.awaiting = "confirmation" /\ LowerText \in YesWords
TokenThenResult ==
    /\ Len(stream) = 2
    /\ stream[1].type = "token"
    /\ stream[2].type \in {"result", "error"}
ShownMode(mode) ==
    /\ TokenThenResult
    /\ stream[2].type = "result"
    /\ stream[2].workflow # None
    /\ stream[2].workflow.mode = mode

\* C1 (as claimed): on a turn that loaded a pending mutation state, the graph
\* is invoked and SQL is executed only if that state had awaiting =
\* confirmation and the trimmed lowercased message is a yes-word.
C1_GraphOnlyAfterConfirmedYes ==
    (TurnStarted /\ loaded.present /\ ~ConfirmedYes)
        => (~GraphInvoked /\ executed = <<>>)

\* C2 (as claimed): a no-word sent to a state awaiting confirmation keeps the
\* state persisted with awaiting = field_selection and page = 0, returns the
\* field menu, sets no mutation_context and executes nothing.
C2_NoReturnsToFieldSelection ==
    (TurnStarted /\ loaded.present /\ loaded.awaiting = "confirmation"
     /\ LowerText \in NoWords)
        => /\ ~GraphInvoked
           /\ executed = <<>>
           /\ TurnContext = None
           /\ StoredState.present
           /\ StoredState.awaiting = "field_selection"
           /\ StoredState.page = 0
           /\ ShownMode("field_selection")

\* C3: a yes-word sent to a state awaiting confirmation deletes the stored
\* state, sets mutation_context to {operation, table, fields =
\* collected_fields} of that state and returns no response: the same turn
\* goes on to the graph.
C3_ConfirmedYesProceeds ==
    (TurnStarted /\ ConfirmedYes)
        => /\ GraphInvoked
           /\ TurnContext = [operation |-> loaded.operation, table |-> loaded.table,
                             fields |-> loaded.collected_fields]
           /\ (pc # "idle" => StoredState = NoMutation)
           /\ (pc = "route" => stream = <<>>)

C3_Witness == TurnStarted /\ ConfirmedYes /\ pc = "route"

BuilderGuidance ==
    {"mention_table", "step_by_step", "update_hint", "no_valid_fields",
     "update_requires_id", "update_requires_field"}

\* C4: sql_execute is reached, and a statement sent to the database, only
\* with a query other than SKIP that sql_validate passed; after SKIP the run
\* ends right behind sql_build with the builder's guidance as message; a
\* failed validation leads to respond once, with nothing executed; no node
\* runs twice.
C4_ExecuteOnlyValidated ==
    /\ pc = "sql_execute"
         => /\ agent.error = None
            /\ agent.sql_query \notin {None, SKIP}
            /\ visited[Len(visited)] = "sql_validate"
    /\ executed # <<>>
         => /\ executed = <<agent.sql_query>>
            /\ agent.sql_query # SKIP
            /\ InSeq("sql_validate", visited)
            /\ visited[Len(visited)] \in {"sql_execute", "respond"}
    /\ agent.sql_query = SKIP
         => /\ pc \in {"end", "idle"}
            /\ visited[Len(visited)] = "sql_build"
            /\ executed = <<>>
            /\ agent.message # None
            /\ agent.message.kind \in BuilderGuidance
    /\ agent.error = ValidationError
         => /\ executed = <<>>
            /\ ~InSeq("sql_execute", visited)
            /\ pc \in {"respond", "end", "idle"}
            /\ (pc # "respond" => visited[Len(visited)] = "respond")
    /\ \A i, j \in 1..Len(visited) : visited[i] = visited[j] => i = j

C4_Witness ==
    /\ pc = "respond"
    /\ executed # <<>>
    /\ executed[1].by = "llm"

\* C5 (as claimed): the records of a finished turn are one token followed by
\* one result or error record, or one error record alone.
C5_StreamShape ==
    TurnOver => \/ TokenThenResult
                \/ (Len(stream) = 1 /\ stream[1].type = "error")

RecoverableError ==
    /\ agent.error # None
    /\ agent.error.kind = "db"
    /\ agent.error.pattern \in {"invalid_value", "missing_default"}
    /\ TurnContext # None

\* C6 (as claimed): after a turn whose graph result carries an error quoting
\* a column, with a mutation_context present, the stored state awaits the
\* value of that column, the column's value prompt is streamed and the
\* status is ok.
C6_RecoveryPromptsForValue ==
    (TurnOver /\ visited # <<>> /\ RecoverableError)
        => /\ StoredState.present
           /\ StoredState.awaiting = "field_value"
           /\ StoredState.pending_field = agent.error.column
           /\ (agent.error.pattern = "invalid_value"
                 => ~Has(StoredState.collected_fields, agent.error.column))
           /\ ShownMode("field_value")
           /\ stream[2].status = "ok"
           /\ stream[2].message.kind = "value_prompt"

\* the turn stored a value for the column the turn before had recovered, every
\* other required field of the loaded state being collected already
AcceptedLastField ==
    /\ TurnStarted
    /\ turn_log[2].accepted # <<>>
    /\ \A i \in 1..Len(loaded.required_fields) :
          loaded.required_fields[i] # turn_log[2].accepted[1]
              => ~IsMissing(loaded.collected_fields, loaded.required_fields[i])

InsertLacksRequired ==
    /\ InSeq("sql_build", visited)
    /\ TurnContext = None
    /\ agent.intent # None
    /\ agent.intent.operation = "insert"
    /\ resolve_table(Query, agent.intent) # <<>>
    /\ MissingFrom(required_create_fields(resolve_table(Query, agent.intent)),
                   Update(agent.intent.fields, parse_kv_pairs(Query))) # <<>>

\* C8 (as claimed): an insert that lacks a required create field makes
\* sql_build return SKIP, a guidance message and a workflow_payload with
\* completed = false listing the required fields; the turn ends with token
\* and result and a stored state awaiting field_selection.
C8_InsertLackingFieldsStartsForm ==
    InsertLacksRequired
        => /\ pc # "failed"
           /\ agent.sql_query = SKIP
           /\ agent.message # None
           /\ agent.workflow_payload # None
           /\ ~agent.workflow_payload.completed
           /\ agent.workflow_payload.collected_data.required_fields
                = required_create_fields(resolve_table(Query, agent.intent))
           /\ (pc = "idle" => /\ TokenThenResult
                              /\ stream[2].type = "result"
                              /\ StoredState.present
                              /\ StoredState.awaiting = "field_selection")

GraphPayloadOpen ==
    /\ TurnOver
    /\ visited # <<>>
    /\ agent.workflow_payload # None
    /\ ~agent.workflow_payload.completed

\* what line 589 takes as pending_field of the payload p
PayloadNextField(p) ==
    IF "next_field" \in DOMAIN p /\ Strip(p.next_field) # <<>>
    THEN Strip(p.next_field)
    ELSE next_missing_field(p.collected_data.required_fields,
                            IF "collected_fields" \in DOMAIN p.collected_data
                            THEN p.collected_data.collected_fields ELSE EmptyDict)

\* C9: when the graph result carries a workflow_payload with completed =
\* false, the turn stores a state with the payload's operation, table and
\* required_fields, awaiting = field_selection, page = 0 and pending_field =
\* the payload's next_field or else the first uncollected required field,
\* and streams the field menu built from that state.
C9_PayloadMaterializesState ==
    GraphPayloadOpen
        => /\ StoredState.present
           /\ StoredState.operation = agent.workflow_payload.collected_data.operation
           /\ StoredState.table = agent.workflow_payload.collected_data.table
           /\ StoredState.required_fields
                = agent.workflow_payload.collected_data.required_fields
           /\ StoredState.awaiting = "field_selection"
           /\ StoredState.page = 0
           /\ StoredState.pending_field = PayloadNextField(agent.workflow_payload)
           /\ TokenThenResult
           /\ stream[1].content = build_field_menu(StoredState)[1]
           /\ stream[2].message = build_field_menu(StoredState)[1]
           /\ stream[2].workflow = build_field_menu(StoredState)[2]

C9_Witness ==
    /\ GraphPayloadOpen
    /\ StoredState.present
    /\ StoredState.pending_field = W_id

\* the turn was handled with awaiting = field_value and a bare value: not
\* empty and without a key=value, key: value or key is value pair
BareValueTurn ==
    /\ HandledInPrelude
    /\ loaded.awaiting = "field_value"
    /\ UserText # <<>>
    /\ parse_kv_pairs(UserText) = EmptyDict

StartsWithCommand(text) ==
    \E token \in CommandTokens :
        Len(text) >= Len(token) /\ SubSeq(text, 1, Len(token)) = token

LoadedRemaining == remaining_fields(loaded.required_fields, loaded.collected_fields)
LoadedPending ==
    IF Strip(loaded.pending_field) = <<>> THEN LoadedRemaining[1]
    ELSE Strip(loaded.pending_field)

ExpectedValue(text, options) ==
    IF options # <<>> /\ IsDigit(text) /\ 1 <= IntValue(text)
       /\ IntValue(text) <= Len(options)
    THEN options[IntValue(text)].value
    ELSE text

M_next == W_next
M_prev == W_prev
M_six == <<"6">>
M_weekly_2 == <<"W", "e", "e", "k", "l", "y", " ", "(", "2", ")">>
M_date_label ==
    <<"d", "a", "t", "e", " ", "-", " ", "S", "c", "h", "e", "d", "u", "l", "e",
      " ", "d", "a", "t", "e">>
M_DATE == <<"D", "A", "T", "E">>
M_stop == <<"S", "t", "o", "p", " ">>

FormMessages ==
    { M_one, M_two, M_six, M_next, M_prev, W_cancel, M_stop, M_yes, M_no,
      M_weekly_2, M_date_label, M_DATE, M_ab, M_add_task }

\* <<fields of the client's mutation_context, error pattern, quoted column>>
FormSeeds ==
    { << <<<<W_date, <<>>>>, <<W_occurrence, <<>>>>>>, "invalid_value", W_date >>,
      << <<<<W_date, M_ab>>, <<W_occurrence, <<>>>>>>, "invalid_value", W_occurrence >>,
      << <<<<W_date, <<>>>>>>, "invalid_value", W_date >>,
      << <<<<W_title, <<>>>>, <<W_active, <<>>>>, <<W_date, <<>>>>,
           <<W_occurrence, <<>>>>, <<W_id, <<>>>>>>, "missing_default", W_enabled >>,
      << <<<<W_title, M_ab>>>>, "missing_default", W_title >>,
      << <<<<W_next, <<>>>>, <<W_date, <<>>>>>>, "invalid_value", W_next >> }

\* the state the turn leaves in the store (Outcome of the failed INSERT)
RecoveredState(seed) ==
    Outcome([NoAgent EXCEPT !.error = DbError(seed[2], seed[3])],
            [operation |-> "insert", table |-> W_log, fields |-> seed[1]],
            NoMutation, FALSE).store

FormStates == { RecoveredState(seed) : seed \in FormSeeds }

FormInit ==
    /\ workflow = TRUE
    /\ mutation_store \in [SessionIds -> FormStates]
    /\ history_store = [s \in SessionIds |-> <<>>]
    /\ response_cache = EmptyDict
    /\ pc = "idle"
    /\ request = NoRequest
    /\ loaded = NoMutation
    /\ agent = NoAgent
    /\ visited = <<>>
    /\ executed = <<>>
    /\ stream = <<>>
    /\ turns = 0
    /\ turn_log = <<NoFacts, NoFacts>>
    /\ call = None
    /\ retry = None
    /\ inflight = <<>>

\* what the database answers in these sessions
FormDbOutcomes ==
    { [ok |-> TRUE, count |-> 1, error |-> None],
      [ok |-> FALSE, count |-> 0, error |-> DbError("invalid_value", W_date)] }

FormNext ==
    \/ \E session_id \in SessionIds, message \in FormMessages :
          ReceiveRequest(session_id, message, None, 0, "up")
    \/ \E llm_route \in {"SQL", "CHAT"} : RouteNode(llm_route)
    \/ \E llm_answer \in {"raises", "reply"} : ChatNode(llm_answer)
    \/ \E llm_intent \in {None, Intent("insert", W_task, EmptyDict),
                           Intent("update", W_task, EmptyDict)} :
          IntentNode(llm_intent)
    \/ MutationUnderstandNode
    \/ SqlBuildNode(None)
    \/ SqlValidateNode(TRUE)
    \/ \E outcome \in FormDbOutcomes : SqlExecuteNode(outcome)
    \/ RespondNode
    \/ FinishTurn(FALSE)
    \/ TurnFailed

FormSpec == FormInit /\ [][FormNext]_vars

(***************************************************************************)
(* Properties of the mutation state machine                                *)
(***************************************************************************)
\* the turn reached the dispatch on awaiting (chat_service.py:359) with the
\* loaded state awaiting the given input
DispatchedWith(awaiting) ==
    /\ TurnStarted
    /\ loaded.present
    /\ loaded.awaiting = awaiting
    /\ LowerText \notin CancelWords
    /\ LoadedRemaining # <<>>

\* <<collected_fields, accepted_updates>> of lines 401-406 for the turn
TurnUpdates ==
    With(parse_user_field_updates(UserText, LoadedPending), LAMBDA parsed :
       IF parsed.raises THEN <<loaded.collected_fields, 0>>
       ELSE AcceptUpdates(parsed.updates, loaded.required_fields,
                          <<loaded.collected_fields, 0>>))

FieldValueAccepted == DispatchedWith("field_value") /\ TurnUpdates[2] > 0

StoredRemaining ==
    remaining_fields(StoredState.required_fields, StoredState.collected_fields)

\* C11: a field_value turn that accepts at least one update returns in the
\* prelude (no mutation_context, no graph) and persists the accepted values
\* with page = 0; if a required field is still uncollected the state awaits
\* field_selection with pending_field = the first uncollected required field
\* and the field menu is returned, otherwise it awaits confirmation with an
\* empty pending_field and the confirmation prompt is returned.
C11_AcceptedUpdateAdvances ==
    FieldValueAccepted
        => /\ HandledInPrelude
           /\ executed = <<>>
           /\ TurnContext = None
           /\ StoredState.present
           /\ StoredState.collected_fields = TurnUpdates[1]
           /\ StoredState.page = 0
           /\ IF StoredRemaining # <<>>
              THEN /\ StoredState.awaiting = "field_selection"
                   /\ StoredState.pending_field = StoredRemaining[1]
                   /\ ShownMode("field_selection")
                   /\ stream[2].workflow = build_field_menu(StoredState)[2]
              ELSE /\ StoredState.awaiting = "confirmation"
                   /\ StoredState.pending_field = <<>>
                   /\ ShownMode("confirmation")
                   /\ stream[2].workflow = build_confirmation_prompt(StoredState)[2]

C11_Witness ==
    /\ FieldValueAccepted
    /\ LoadedPending = W_date
    /\ StoredState.present
    /\ StoredState.awaiting = "field_selection"
    /\ StoredState.pending_field = W_occurrence

\* line 167: an option as the value prompt lists it, "Label (value)"
RenderedOption(option) == option.label \o <<" ", "(">> \o option.value \o <<")">>

\* C12 (as claimed): when the pending field has suggested options and the
\* field_value message is an option in the form the prompt lists it, the
\* value stored for the field is the option's value.
C12_OptionLabelStoresValue ==
    DispatchedWith("field_value")
        => \A i \in 1..Len(suggested_options(LoadedPending)) :
              UserText = RenderedOption(suggested_options(LoadedPending)[i])
                  => /\ StoredState.present
                     /\ Get(StoredState.collected_fields, LoadedPending, <<>>)
                          = suggested_options(LoadedPending)[i].value

\* a text in YYYY-MM-DD form
IsIsoDate(text) ==
    /\ Len(text) = 10
    /\ \A i \in {1, 2, 3, 4, 6, 7, 9, 10} : text[i] \in AsciiDigits
    /\ text[5] = "-"
    /\ text[8] = "-"

\* the message of the turn is a bare value: not empty, no key=value pair
BareMessage == UserText # <<>> /\ parse_kv_pairs(UserText) = EmptyDict

\* C13 (as claimed): with awaiting = field_value and a pending field of input
\* kind date, a bare message that is not in YYYY-MM-DD form is rejected: the
\* value prompt for the same field is returned, collected_fields is left as
\* it was and the state keeps awaiting field_value.
C13_InvalidDateRejected ==
    (/\ DispatchedWith("field_value")
     /\ input_kind(LoadedPending) = "date"
     /\ BareMessage
     /\ ~IsIsoDate(UserText))
        => /\ HandledInPrelude
           /\ ShownMode("field_value")
           /\ stream[2].workflow.next_field = LoadedPending
           /\ StoredState.present
           /\ StoredState.awaiting = "field_value"
           /\ StoredState.pending_field = LoadedPending
           /\ StoredState.collected_fields = loaded.collected_fields

\* the trimmed message is one of the command words followed by a space and
\* more text
CommandMessage ==
    \E token \in CommandTokens :
        /\ Len(LowerText) > Len(token)
        /\ SubSeq(LowerText, 1, Len(token)) = token

\* the message carries no key=value pair for a required field of the state
NoRequiredPair ==
    \A i \in 1..Len(parse_kv_pairs(UserText)) :
        ~InSeq(parse_kv_pairs(UserText)[i][1], loaded.required_fields)

\* C14 (as claimed): a command-like message without a pair for a required
\* field, sent to a state awaiting field_selection or field_value, is not
\* stored: the menu, respectively the value prompt, is rendered again and
\* collected_fields, pending_field and awaiting are after the turn what they
\* were before it.
C14_CommandNotStored ==
    (/\ TurnStarted
     /\ loaded.present
     /\ loaded.awaiting \in {"field_selection", "field_value"}
     /\ CommandMessage
     /\ NoRequiredPair)
        => /\ HandledInPrelude
           /\ ShownMode(loaded.awaiting)
           /\ StoredState.present
           /\ StoredState.collected_fields = loaded.collected_fields
           /\ StoredState.pending_field = loaded.pending_field
           /\ StoredState.awaiting = loaded.awaiting

PagingWords == {W_next, W_more, W_prev, W_back}

\* the fields the menu of the loaded state lists on its current page
MenuPageFields == build_field_menu(loaded)[2].ui.options

\* the message is a decimal number that indexes the current menu page
IndexesMenuPage ==
    /\ IsDigit(LowerText)
    /\ ~IntRaises(LowerText)
    /\ 1 <= IntValue(LowerText)
    /\ IntValue(LowerText) <= Len(MenuPageFields)

\* the message is, case-insensitively, the name of an uncollected field
NamesRemainingField ==
    \E i \in 1..Len(LoadedRemaining) : Lower(LoadedRemaining[i]) = LowerText

\* the turn persisted the state with the field selected and returned the
\* value prompt for it
Selected(field) ==
    /\ HandledInPrelude
    /\ StoredState.present
    /\ StoredState.pending_field = field
    /\ StoredState.awaiting = "field_value"
    /\ StoredState.collected_fields = loaded.collected_fields
    /\ ShownMode("field_value")
    /\ stream[2].workflow.next_field = field
    /\ stream[2].message.field = field

\* C15 (as claimed): with awaiting = field_selection, a number within the
\* current menu page selects the field listed at that place, and a message
\* that is case-insensitively the name of an uncollected field selects that
\* field: the state is persisted with pending_field = the field, awaiting =
\* field_value and collected_fields unchanged, and the value prompt for the
\* field is returned.
C15_SelectionByNumberOrName ==
    (TurnStarted /\ loaded.present /\ loaded.awaiting = "field_selection")
        => /\ IndexesMenuPage => Selected(MenuPageFields[IntValue(LowerText)])
           /\ NamesRemainingField => Selected(FirstNamed(LoadedRemaining, LowerText))

\* C15 (amended): the same, for messages that are neither a word that
\* cancels the workflow (cancel, stop, exit, abort) nor a paging word (next,
\* more, prev, back); these keep their meaning when a field bears the name.
C15_SelectionUnlessReservedWord ==
    (/\ TurnStarted
     /\ loaded.present
     /\ loaded.awaiting = "field_selection"
     /\ LowerText \notin CancelWords \cup PagingWords)
        => /\ IndexesMenuPage => Selected(MenuPageFields[IntValue(LowerText)])
           /\ NamesRemainingField => Selected(FirstNamed(LoadedRemaining, LowerText))

C15_Witness ==
    /\ TurnStarted
    /\ loaded.present
    /\ loaded.awaiting = "field_selection"
    /\ loaded.page = 1
    /\ UserText = M_one
    /\ Selected(W_enabled)

\* ceil(n / d) for d > 0
CeilDiv(n, d) == CHOOSE k \in 0..n : k * d >= n /\ (k = 0 \/ (k - 1) * d < n)

\* the page the claim expects after a paging word
ExpectedPage ==
    IF LowerText \in {W_next, W_more}
    THEN Min(loaded.page + 1,
             Max(1, CeilDiv(Len(LoadedRemaining), loaded.page_size)) - 1)
    ELSE Max(0, loaded.page - 1)

\* C16 (as claimed): with awaiting = field_selection, next/more sets page to
\* min(page + 1, total_pages - 1) and prev/back to max(0, page - 1), with
\* total_pages = max(1, ceil(uncollected required fields / page_size)); the
\* state is persisted with collected_fields and awaiting unchanged and the
\* menu of the new page is returned.
C16_PagingClamped ==
    (/\ TurnStarted
     /\ loaded.present
     /\ loaded.awaiting = "field_selection"
     /\ LowerText \in PagingWords)
        => /\ HandledInPrelude
           /\ StoredState.present
           /\ StoredState.page = ExpectedPage
           /\ StoredState.collected_fields = loaded.collected_fields
           /\ StoredState.awaiting = "field_selection"
           /\ ShownMode("field_selection")
           /\ stream[2].workflow = build_field_menu(StoredState)[2]
           /\ stream[2].workflow.pagination.page = ExpectedPage + 1

\* the turn loaded a pending mutation state and its message cancels
CancelTurn == TurnStarted /\ loaded.present /\ LowerText \in CancelWords

\* the cancelling turn: state deleted, cancellation message with status ok,
\* no mutation_context, no graph
CancelClearsState ==
    CancelTurn
        => /\ HandledInPrelude
           /\ executed = <<>>
           /\ TurnContext = None
           /\ StoredState = NoMutation
           /\ stream = <<TokenRecord(CancelMessage),
                         build_final_response(CancelMessage, "ok", None, None)>>

\* the turn that follows it loads no mutation state and goes to the graph
NextTurnUnburdened ==
    (CancelTurn /\ turns' = turns + 1 /\ request'.session_id = request.session_id)
        => /\ loaded' = NoMutation
           /\ request'.metadata.mutation_context = None
           /\ pc' = "route"

\* C17: whatever the pending state awaits, a message whose trimmed lowercase
\* form is cancel, stop, exit or abort deletes the session's mutation state,
\* returns the cancellation message with status ok, sets no mutation_context
\* and does not invoke the graph; the following turn of the session is
\* handled as a turn without a pending mutation.
C17_CancelClearsWorkflow == [](CancelClearsState) /\ [][NextTurnUnburdened]_vars

C17_Witness ==
    /\ CancelTurn
    /\ loaded.awaiting = "confirmation"
    /\ UserText = <<"S", "t", "o", "p">>
    /\ StoredState = NoMutation
    /\ TurnOver

\* the invariants of a persisted mutation state
WellFormed(state) ==
    state.present
        => /\ state.pending_field = <<>> \/ InSeq(state.pending_field, state.required_fields)
           /\ \A i \in 1..Len(state.collected_fields) :
                 InSeq(state.collected_fields[i][1], state.required_fields)
           /\ state.awaiting \in {"field_selection", "field_value", "confirmation"}

\* the state line 580 saves when the recovery block runs on the graph result
RecoveryOfTurn == recovery(TurnContext, agent.error)

\* C18: every mutation state the orchestrator persists, by a turn of the
\* state machine, by post-execution recovery or from a workflow payload, has
\* pending_field in required_fields or empty, the keys of collected_fields
\* among required_fields, and awaiting one of field_selection, field_value,
\* confirmation.
C18_PersistedStateWellFormed ==
    /\ \A s \in SessionIds : WellFormed(mutation_store[s])
    /\ (pc = "end" /\ RecoveryOfTurn.applies) => WellFormed(RecoveryOfTurn.state)

C18_Witness ==
    /\ TurnOver
    /\ visited # <<>>
    /\ RecoveryOfTurn.applies
    /\ StoredState.present
    /\ StoredState.pending_field = W_date
    /\ turns = 3

(***************************************************************************)
(* The response cache.  History (ttl 24 h) outlives the cached responses   *)
(* (ttl 1 h): a session is taken up again with a history of earlier turns  *)
(* and an empty response cache.                                            *)
(***************************************************************************)
\* entries the response cache may hold in these sessions
CacheCapacity == 2

\* a history of n entries, left by n / 2 earlier turns, numbered up to 0
HistoryOf(n) ==
    [i \in 1..n |-> Entry(IF i % 2 = 1 THEN "user" ELSE "assistant",
                          ((i + 1) \div 2) - (n \div 2))]

\* the lengths of the history the session starts with
StartLengths == {0, HistoryLimit - 2, HistoryLimit}

CacheMessages == { M_ab, M_add_task }

CacheContexts ==
    { None,
      [operation |-> "insert", table |-> W_task, fields |-> <<<<W_title, M_ab>>>>] }

CacheDbOutcomes ==
    { [ok |-> TRUE, count |-> 1, error |-> None],
      [ok |-> FALSE, count |-> 0, error |-> DbError("invalid_value", W_title)] }

CacheInit ==
    /\ workflow = TRUE
    /\ mutation_store = [s \in SessionIds |-> NoMutation]
    /\ history_store \in [SessionIds -> {HistoryOf(n) : n \in StartLengths}]
    /\ response_cache = EmptyDict
    /\ pc = "idle"
    /\ request = NoRequest
    /\ loaded = NoMutation
    /\ agent = NoAgent
    /\ visited = <<>>
    /\ executed = <<>>
    /\ stream = <<>>
    /\ turns = 0
    /\ turn_log = <<NoFacts, NoFacts>>
    /\ call = None
    /\ retry = None
    /\ inflight = <<>>

CacheNext ==
    \/ \E session_id \in SessionIds, message \in CacheMessages,
          client_context \in CacheContexts :
          ReceiveRequest(session_id, message, client_context, 0, "up")
    \/ \E llm_route \in {"SQL", "CHAT"} : RouteNode(llm_route)
    \/ \E llm_answer \in ChatAnswers : ChatNode(llm_answer)
    \/ \E llm_intent \in {None, Intent("select", W_task, EmptyDict)} :
          IntentNode(llm_intent)
    \/ MutationUnderstandNode
    \/ SqlBuildNode(None)
    \/ \E schema_known \in BOOLEAN : SqlValidateNode(schema_known)
    \/ \E outcome \in CacheDbOutcomes : SqlExecuteNode(outcome)
    \/ RespondNode
    \/ \E cache_set \in BOOLEAN :
          (cache_set => Len(response_cache) < CacheCapacity) /\ FinishTurn(cache_set)
    \/ TurnFailed

CacheSpec == CacheInit /\ [][CacheNext]_vars

(***************************************************************************)
(* C19, C20: the response cache                                            *)
(***************************************************************************)
\* the key the current turn computed; the history is extended only when the
\* turn returns, so before that it is the history the turn started with
TurnKey ==
    generate_key(request.session_id, Len(history_store[request.session_id]),
                 request.message)

\* the step stores the turn's final response: the graph has ended, no mutation
\* state was pending when the turn started, the request carried no
\* mutation_context, and the response is ok and carries no workflow payload
CacheWrite ==
    /\ pc = "end"
    /\ ~loaded.present
    /\ TurnContext = None
    /\ Len(stream') = 2
    /\ stream'[2].type = "result"
    /\ stream'[2].status = "ok"
    /\ stream'[2].workflow = None
    /\ response_cache' = Put(response_cache, TurnKey, stream'[2])

CacheUntouched == response_cache' = response_cache

\* the turn returned a response without the handler and without the graph:
\* it was answered from the cache
ServedFromCache ==
    /\ TurnOver
    /\ visited = <<>>
    /\ ~loaded.present
    /\ Len(stream) = 2

\* the step is a request of a session with a pending mutation state, and the
\* turn returns without the graph
PendingTurnAnswered ==
    /\ pc = "idle"
    /\ turns' = turns + 1
    /\ loaded'.present
    /\ Len(stream') = 2

\* the response of that turn is the reply of _handle_active_mutation
HandlerAnswers ==
    stream'[2] = handle_active_mutation(request'.message, loaded').resp

\* C19: the cache is written only with the final response of a turn that
\* started with no pending mutation state, carried no mutation_context, ended
\* with status ok and produced no workflow payload; a turn with a pending
\* mutation state or a mutation_context is never answered from the cache.
C19_CacheOnlyForPlainTurns ==
    /\ [][CacheWrite \/ CacheUntouched]_vars
    /\ [](ServedFromCache => TurnContext = None)
    /\ [][PendingTurnAnswered => HandlerAnswers]_vars

\* a response was stored by one turn and a later turn was answered with it
C19_Witness ==
    /\ ServedFromCache
    /\ \E i \in 1..Len(response_cache) :
          response_cache[i][2].message = stream[2].message

\* the turn before this step's request was completed (its two records were
\* appended to the history) and had another message
FollowsOtherMessage ==
    /\ pc = "idle"
    /\ turns' = turns + 1
    /\ Len(stream) = 2
    /\ request'.session_id = request.session_id
    /\ request'.message # request.message

\* C20: a message sent after a completed turn with another message is never
\* answered from an entry an earlier turn of the session cached for the same
\* message, however long the conversation is.
C20_NoStaleAnswer ==
    [][FollowsOtherMessage => ~ServedFromCache']_vars

(***************************************************************************)
(* The service functions applied on their own, outside any session: each   *)
(* action applies one function to arguments drawn from a bounded set and   *)
(* records the arguments and the result in call.                           *)
(***************************************************************************)
Called(op, args, result) == [op |-> op, args |-> args, result |-> result]

\* session ids, history lengths and messages of response-cache keys
KeySessions == { <<"s">>, <<"s", "1">> }
KeyLengths == { 2, 12, 20 }
KeyMessages == { <<"a", "b">>, <<"0", "a", "b">>, <<"2", "a", "b">> }
KeyTriples == KeySessions \X KeyLengths \X KeyMessages

\* the response-cache keys of two turns (chat_service.py:498)
GenerateKeys(a, b) ==
    /\ call' = Called("generate_key", <<a, b>>,
                      <<generate_key(a[1], a[2], a[3]), generate_key(b[1], b[2], b[3])>>)
    /\ UNCHANGED session_vars
    /\ UNCHANGED <<retry, inflight>>

(***************************************************************************)
(* C21: response-cache keys                                                *)
(***************************************************************************)
KeysCompared == call # None /\ call.op = "generate_key"

\* C21: with SHA-256 taken as injective, the keys of two turns are equal if
\* and only if their (session id, history length, message) triples are equal;
\* in particular two different sessions never get the same key.
C21_KeyEqualityIffTriplesEqual ==
    KeysCompared =>
        /\ (call.result[1] = call.result[2]) <=> (call.args[1] = call.args[2])
        /\ call.args[1][1] # call.args[2][1] => call.result[1] # call.result[2]

(***************************************************************************)
(* The SQL builder and the validator applied on their own                  *)
(***************************************************************************)
\* answers of the model besides LlmStatements: a SELECT without LIMIT, one
\* with another LIMIT, a SELECT over a DELETE, an INSERT from a SELECT, an
\* UPDATE, a TRUNCATE, a DROP and a CREATE from a SELECT
OtherStatements ==
    { LlmStatement("SELECT", {}, 0, TRUE, FALSE),
      LlmStatement("SELECT", {}, 5, TRUE, FALSE),
      LlmStatement("SELECT", {"DELETE"}, SelectLimit, TRUE, FALSE),
      LlmStatement("INSERT", {"SELECT"}, 0, TRUE, FALSE),
      LlmStatement("UPDATE", {}, 0, TRUE, FALSE),
      LlmStatement("TRUNCATE", {}, 0, TRUE, FALSE),
      LlmStatement("DROP", {}, 0, TRUE, FALSE),
      LlmStatement("CREATE", {"SELECT"}, 0, TRUE, FALSE) }

AnyStatements == LlmStatements \cup OtherStatements

UnitTables == { W_task, W_log }

\* tenant ids; 0 stands for an absent (falsy) tenant id
TenantIds == { 0, 7 }

\* build_select with the "sql" of the model's answer (None: every attempt
\* failed, or the answer had no usable "sql")
BuildSelect(llm_sql, table, company_id) ==
    /\ call' = Called("build_select", <<llm_sql, table, company_id>>,
                      build_select(llm_sql, table, company_id))
    /\ UNCHANGED session_vars
    /\ UNCHANGED <<retry, inflight>>

\* validate_sql on an answer of the model or on a statement of the builder
ValidateSql(sql, schema_known) ==
    /\ call' = Called("validate_sql", <<sql, schema_known>>,
                      validate_sql(sql, schema_known))
    /\ UNCHANGED session_vars
    /\ UNCHANGED <<retry, inflight>>

\* the keys a field mapping may have, in the order they are given: id,
\* company_id, two important columns of task, a column that is not one, and
\* a name that is no identifier
UpdateKeys == <<W_id, W_company_id, W_title, W_active, W_enabled, <<"a", " ", "b">>>>

\* the pairs of the keys in chosen, in the order of UpdateKeys
RECURSIVE PairsOf(_, _, _)
PairsOf(keys, chosen, record_id) ==
    IF keys = <<>> THEN <<>>
    ELSE (IF Head(keys) \notin chosen THEN <<>>
          ELSE <<<<Head(keys), IF Head(keys) = W_id THEN record_id ELSE M_ab>>>>)
         \o PairsOf(Tail(keys), chosen, record_id)

\* the record ids: a number, and the empty text
RecordIds == { <<"5">>, <<>> }

FieldMaps ==
    { PairsOf(UpdateKeys, chosen, record_id) :
          chosen \in SUBSET RangeOf(UpdateKeys), record_id \in RecordIds }

BuildUpdate(table, fields, company_id) ==
    /\ call' = Called("build_update", <<table, fields, company_id>>,
                      build_update(table, fields, company_id))
    /\ UNCHANGED session_vars
    /\ UNCHANGED <<retry, inflight>>

\* the statements the builder renders itself
BuilderStatements ==
    { fallback_select(table, company_id) :
          table \in UnitTables, company_id \in TenantIds }
    \cup { build_update(W_task, PairsOf(UpdateKeys, {W_id, W_title}, <<"5">>),
                        company_id)[1] : company_id \in TenantIds }

\* utterances the router may have to classify without the model
U_how_many_tasks == <<"h", "o", "w", " ", "m", "a", "n", "y", " ", "t", "a", "s", "k", "s", " ", "a", "r", "e", " ", "t", "h", "e", "r", "e">>
U_show_user_list == <<"S", "h", "o", "w", " ", "u", "s", "e", "r", " ", "l", "i", "s", "t">>
U_hello_there == <<"h", "e", "l", "l", "o", " ", "t", "h", "e", "r", "e">>
U_tasks == <<"t", "a", "s", "k", "s">>
U_task_q == <<" ", "t", "a", "s", "k", "?">>
U_added == <<"w", "h", "a", "t", " ", "w", "a", "s", " ", "a", "d", "d", "e", "d">>
U_get_me == <<"g", "e", "t", " ", "m", "e", " ", "t", "h", "a", "t">>
U_forget == <<"f", "o", "r", "g", "e", "t", " ", "i", "t">>

RouterUtterances ==
    { U_how_many_tasks, U_show_user_list, U_hello_there, U_tasks, U_task_q,
      U_added, U_get_me, U_forget }

\* RouterService.fallback on an utterance
RouterFallback(query) ==
    /\ call' = Called("router_fallback", <<query>>, router_fallback(query))
    /\ UNCHANGED session_vars
    /\ UNCHANGED <<retry, inflight>>

UnitNext ==
    \/ \E a \in KeyTriples, b \in KeyTriples : GenerateKeys(a, b)
    \/ \E llm_sql \in AnyStatements \cup {None}, table \in UnitTables,
          company_id \in TenantIds : BuildSelect(llm_sql, table, company_id)
    \/ \E sql \in AnyStatements \cup BuilderStatements, schema_known \in BOOLEAN :
          ValidateSql(sql, schema_known)
    \/ \E table \in UnitTables, fields \in FieldMaps, company_id \in TenantIds :
          BuildUpdate(table, fields, company_id)
    \/ \E query \in RouterUtterances : RouterFallback(query)

UnitSpec == Init /\ [][UnitNext]_vars

(***************************************************************************)
(* C28: build_select                                                       *)
(***************************************************************************)
SelectBuilt == call # None /\ call.op = "build_select"

\* C28: whatever the model answers, and when all its attempts fail, the SQL
\* build_select returns contains LIMIT 100.
C28_SelectHasLimit ==
    SelectBuilt => call.result.limit = SelectLimit

(***************************************************************************)
(* C29: validate_sql                                                       *)
(***************************************************************************)
Validated == call # None /\ call.op = "validate_sql"

PermittedKinds == {"SELECT", "INSERT", "UPDATE"}

\* C29: a statement is accepted only if it parses, its root is a SELECT, an
\* INSERT or an UPDATE, and no DROP, DELETE, ALTER or CREATE occurs anywhere
\* in its parse tree.
C29_OnlyPermittedStatementsAccepted ==
    (Validated /\ call.result) =>
        /\ Parse(call.args[1]).ok
        /\ Parse(call.args[1]).root \in PermittedKinds
        /\ Parse(call.args[1]).nodes \cap {"DROP", "DELETE", "ALTER", "CREATE"} = {}

(***************************************************************************)
(* C30: build_update                                                       *)
(***************************************************************************)
UpdateBuilt == call # None /\ call.op = "build_update"

\* the call returned an error and no SQL: the id is missing, or nothing
\* updatable is left
UpdateRefused ==
    /\ call.result[1] = None
    /\ call.result[2] # None
    /\ \/ Get(call.args[2], W_id, <<>>) = <<>>
       \/ \A pair \in RangeOf(call.args[2]) :
             \/ safe_ident(pair[1]) = <<>>
             \/ pair[1] \in {W_id, W_company_id}
             \/ pair[1] \notin important_columns(call.args[1])
                /\ important_columns(call.args[1]) # {}

\* the WHERE clause the claim describes
ExpectedWhere ==
    <<<<W_id, safe_value(Get(call.args[2], W_id, <<>>))>>>>
    \o (IF W_company_id \in important_columns(call.args[1]) /\ call.args[3] # 0
        THEN <<<<W_company_id, safe_value(safe_number(call.args[3]))>>>>
        ELSE <<>>)

\* the call returned an UPDATE with that WHERE clause, whose SET list has
\* neither id nor company_id and only names that are identifiers
UpdateEmitted ==
    /\ call.result[2] = None
    /\ call.result[1].kind = "UPDATE"
    /\ call.result[1].table = call.args[1]
    /\ call.result[1].where = ExpectedWhere
    /\ call.result[1].assignments # EmptyDict
    /\ \A name \in KeySet(call.result[1].assignments) :
          /\ name \notin {W_id, W_company_id}
          /\ safe_ident(name) = name

SetNames == KeySet(call.result[1].assignments)

\* C30 as claimed: every name of the SET list is an important column
C30_UpdateShape ==
    UpdateBuilt =>
        \/ UpdateRefused
        \/ UpdateEmitted /\ SetNames \subseteq important_columns(call.args[1])

\* C30: build_update returns an error and no SQL, or an UPDATE whose WHERE
\* clause is id=<value> (and company_id=<tenant> when the table has the column
\* and a tenant id is in scope) and whose SET list has neither id nor
\* company_id, only identifiers and, when the table has important columns,
\* only important columns.
C30_UpdateShapeWhitelistIfAny ==
    UpdateBuilt =>
        \/ UpdateRefused
        \/ /\ UpdateEmitted
           /\ important_columns(call.args[1]) # {}
                 => SetNames \subseteq important_columns(call.args[1])

\* an UPDATE was built from a mapping that also carries id, company_id, a
\* column outside the whitelist and a name that is no identifier
C30_Witness ==
    /\ UpdateBuilt
    /\ call.result[2] = None
    /\ Len(call.args[2]) = Len(UpdateKeys)
    /\ call.args[1] = W_task
    /\ call.args[3] # 0

(***************************************************************************)
(* C27: the route of a turn with a mutation_context                        *)
(***************************************************************************)
SqlPath == <<"route", "intent", "mutation_understand", "sql_build">>

\* the route node has run in a turn whose metadata carries a mutation_context
RoutedWithContext == TurnStarted /\ TurnContext # None /\ visited # <<>>

\* C27: with a mutation_context in the metadata the route node returns SQL,
\* whatever the message is and whatever the router model answers, and the run
\* goes on to intent, mutation_understand and sql_build, never to chat.
C27_ContextForcesSql ==
    RoutedWithContext =>
        /\ agent.route = "SQL"
        /\ \A i \in 1..Len(visited) :
              /\ visited[i] # "chat"
              /\ i <= Len(SqlPath) => visited[i] = SqlPath[i]
        /\ Len(visited) < Len(SqlPath) => pc = SqlPath[Len(visited) + 1]

\* the builder has run in such a turn although the keyword fallback of the
\* router sends the message to chat
C27_Witness ==
    /\ RoutedWithContext
    /\ Len(visited) >= Len(SqlPath)
    /\ router_fallback(Query) = "CHAT"

(***************************************************************************)
(* Sessions in which no call of the model succeeds: the router, the intent *)
(* and the SELECT model give no usable answer and the chat model raises.   *)
(***************************************************************************)
M_tag == <<"t", "a", "g">>
M_show_task == <<"s", "h", "o", "w", " ", "t", "a", "s", "k">>

LlmDownMessages == { M_tag, M_ab, M_add_task, M_show_task }

LlmDownNext ==
    \/ Startup
    \/ \E session_id \in SessionIds, message \in LlmDownMessages,
          client_context \in CacheContexts :
          ReceiveRequest(session_id, message, client_context, 0, "up")
    \/ RouteNode("")
    \/ ChatNode("raises")
    \/ IntentNode(None)
    \/ MutationUnderstandNode
    \/ SqlBuildNode(None)
    \/ \E schema_known \in BOOLEAN : SqlValidateNode(schema_known)
    \/ \E outcome \in CacheDbOutcomes : SqlExecuteNode(outcome)
    \/ RespondNode
    \/ FinishTurn(FALSE)
    \/ TurnFailed

LlmDownSpec == Init /\ [][LlmDownNext]_vars

(***************************************************************************)
(* C26: fallbacks when the model fails                                     *)
(***************************************************************************)
Ran(node) == \E i \in 1..Len(visited) : visited[i] = node

\* the router returned its keyword fallback
RouterFellBack ==
    (Ran("route") /\ TurnContext = None) => agent.route = router_fallback(Query)

\* the intent service returned its fallback intent
IntentFellBack ==
    (Ran("intent") /\ ~Ran("mutation_understand")) => agent.intent = intent_fallback(Query)

\* build_select returned the deterministic SELECT
SelectFellBack ==
    (Ran("sql_build") /\ agent.sql_query \notin {None, SKIP}
     /\ agent.sql_query.kind = "SELECT")
        => agent.sql_query = fallback_select(agent.sql_query.table, Metadata.company_id)

\* the turn ended in an error record after the chat node, whose only
\* failure is that of the model
FailedInChat ==
    /\ TurnOver
    /\ visited # <<>>
    /\ visited[Len(visited)] = "chat"
    /\ stream = <<ErrorRecord("exception")>>

\* C26: when every call of the model fails, the router, the intent service
\* and build_select return their fallbacks, and no turn ends in an error
\* record because of the model alone, on the SQL route and on the CHAT route.
C26_LlmFailureNeverFailsTurn ==
    /\ RouterFellBack
    /\ IntentFellBack
    /\ SelectFellBack
    /\ ~FailedInChat

(***************************************************************************)
(* ainvoke_with_retry (llm_retry_service.py:9-56) on its own.              *)
(*   attempts   the effective number of attempts                           *)
(*   backoff    backoff_seconds, in hundredths of a second                 *)
(*   validator  a validator was passed                                     *)
(*   attempt    the loop variable                                          *)
(*   log        what llm.ainvoke did at each invocation so far             *)
(*   slept      the sleep times so far, in hundredths of a second          *)
(*   last_error the error of the last failed attempt                       *)
(*   at         "invoke", "sleep", "returned" or "raised"                  *)
(*   result     the attempt whose response was returned                    *)
(***************************************************************************)
\* the attempts argument, and the backoff_seconds the callers pass (0.3)
\* and the default (0.35)
AttemptsArguments == { -1, 0, 1, 2, 3 }
Backoffs == { 30, 35 }

\* llm.ainvoke raises, returns a response the validator rejects, or returns
\* one it accepts
Behaviours == { "raises", "rejected", "accepted" }

RetryError(kind, attempt) == [kind |-> kind, attempt |-> attempt]

\* a faulty variant of Exhausted: one attempt too many
ExhaustedLate(attempt, attempts) == attempt > attempts

\* llm_retry_service.py:41
Exhausted(attempt, attempts) == attempt >= attempts

\* llm_retry_service.py:24-27
StartRetry(attempts, backoff, validator) ==
    /\ retry = None
    /\ retry' = [attempts |-> IF attempts < 1 THEN 1 ELSE attempts,
                 backoff |-> backoff, validator |-> validator, attempt |-> 1,
                 log |-> <<>>, slept |-> <<>>, last_error |-> None,
                 at |-> "invoke", result |-> 0]
    /\ UNCHANGED session_vars
    /\ UNCHANGED <<call, inflight>>

\* the attempt failed with error (llm_retry_service.py:39-42)
Failed(error) ==
    [retry EXCEPT !.last_error = error,
                  !.at = IF Exhausted(retry.attempt, retry.attempts)
                         THEN "raised" ELSE "sleep"]

\* one pass of the try block (llm_retry_service.py:29-42); after the break
\* lines 54-55 raise last_error
Invoke(behaviour) ==
    /\ retry # None
    /\ retry.at = "invoke"
    /\ \E invoked \in { [retry EXCEPT !.log = Append(@, behaviour)] } :
          retry' =
             IF behaviour = "raises"
             THEN [Failed(RetryError("exception", retry.attempt))
                      EXCEPT !.log = invoked.log]
             ELSE IF retry.validator /\ behaviour = "rejected"
             THEN [Failed(RetryError("invalid_response", retry.attempt))
                      EXCEPT !.log = invoked.log]
             ELSE [invoked EXCEPT !.at = "returned", !.result = retry.attempt]
    /\ UNCHANGED session_vars
    /\ UNCHANGED <<call, inflight>>

\* llm_retry_service.py:43-52, then the next pass of the loop
Sleep ==
    /\ retry # None
    /\ retry.at = "sleep"
    /\ retry' = [retry EXCEPT !.slept = Append(@, retry.backoff * retry.attempt),
                              !.attempt = @ + 1,
                              !.at = "invoke"]
    /\ UNCHANGED session_vars
    /\ UNCHANGED <<call, inflight>>

RetryNext ==
    \/ \E attempts \in AttemptsArguments, backoff \in Backoffs, validator \in BOOLEAN :
          StartRetry(attempts, backoff, validator)
    \/ \E behaviour \in Behaviours : Invoke(behaviour)
    \/ Sleep

RetrySpec == Init /\ [][RetryNext]_vars

(***************************************************************************)
(* C25: the retry wrapper                                                  *)
(***************************************************************************)
\* the invocation failed: it raised, or the validator rejected its response
FailedAttempt(behaviour) ==
    behaviour = "raises" \/ (retry.validator /\ behaviour = "rejected")

Invocations == Len(retry.log)

\* the model is invoked at most max(1, attempts) times, and every invocation
\* but the last one is a failed attempt
BoundedInvocations ==
    /\ Invocations <= retry.attempts
    /\ \A i \in 1..(Invocations - 1) : FailedAttempt(retry.log[i])

\* the first response that passes is returned, by the attempt that got it
ReturnsFirstValid ==
    retry.at = "returned" =>
        /\ Invocations >= 1
        /\ ~FailedAttempt(retry.log[Invocations])
        /\ retry.result = Invocations

\* backoff_seconds * attempt is waited after each failed attempt but the
\* last one, and at no other time
SleepsBetweenAttempts ==
    /\ \A i \in 1..Len(retry.slept) : retry.slept[i] = retry.backoff * i
    /\ Len(retry.slept) =
          IF retry.at = "sleep" THEN Invocations - 1
          ELSE IF retry.at = "invoke" THEN Invocations
          ELSE Invocations - 1

\* after the last failed attempt its error is raised
RaisesLastError ==
    retry.at = "raised" =>
        /\ Invocations = retry.attempts
        /\ FailedAttempt(retry.log[Invocations])
        /\ retry.last_error =
              RetryError(IF retry.log[Invocations] = "raises"
                         THEN "exception" ELSE "invalid_response",
                         retry.attempts)

\* no invocation follows a returned response
NoInvocationAfterReturn ==
    (retry # None /\ retry.at \in {"returned", "raised"}) => retry' = retry

\* C25: ainvoke_with_retry invokes the model at most max(1, attempts) times,
\* counts a raised exception and a rejected response as a failed attempt,
\* returns the first response that passes without invoking again, sleeps
\* backoff_seconds * attempt only between attempts, and after the last failed
\* attempt raises the error of that attempt.
C25_RetryContract ==
    /\ [](retry # None =>
            /\ BoundedInvocations
            /\ ReturnsFirstValid
            /\ SleepsBetweenAttempts
            /\ RaisesLastError)
    /\ [][NoInvocationAfterReturn]_vars

\* a response was returned by the third attempt, after an exception and a
\* rejected response
C25_Witness ==
    /\ retry # None
    /\ retry.at = "returned"
    /\ retry.log = <<"raises", "rejected", "accepted">>
    /\ Len(retry.slept) = 2

(***************************************************************************)
(* C22: a cache hit                                                        *)
(***************************************************************************)
\* the key of the request this step receives
HitKey ==
    generate_key(request'.session_id, Len(history_store[request'.session_id]),
                 request'.message)

\* the step receives a request without mutation_context in a session without
\* pending mutation, and the cache holds an entry for its key
HitDue ==
    /\ pc = "idle"
    /\ workflow
    /\ turns' = turns + 1
    /\ ~mutation_store[request'.session_id].present
    /\ request'.metadata.mutation_context = None
    /\ Has(response_cache, HitKey)

HitEntry == Get(response_cache, HitKey, None)

\* the cached result, with sql.cached = true when it has sql data
MarkedEntry ==
    IF HitEntry.sql = None THEN HitEntry
    ELSE [HitEntry EXCEPT !.sql = [ran |-> HitEntry.sql.ran, cached |-> TRUE,
                                    query |-> HitEntry.sql.query,
                                    row_count |-> HitEntry.sql.row_count]]

\* the turn ends in the step: the result follows the token, the two entries
\* of the turn are appended to the history, the graph is not invoked and no
\* SQL is executed
HitAnswered ==
    /\ Len(stream') = 2
    /\ stream'[2] = MarkedEntry
    /\ history_store' =
          [history_store EXCEPT
              ![request'.session_id] =
                  Trimmed(@ \o <<Entry("user", turns'), Entry("assistant", turns')>>)]
    /\ pc' = "idle"
    /\ visited' = <<>>
    /\ executed' = <<>>

\* C22 as claimed: the token carries the cached message
C22_CacheHitStreamsCachedMessage ==
    [][HitDue => (HitAnswered /\ stream'[1] = TokenRecord(HitEntry.message))]_vars

\* C22: on a turn with no pending mutation and no mutation_context whose key
\* has an entry in the cache, the turn streams a token and the cached result
\* with sql.cached = true (when it has sql data), appends the user and the
\* assistant entry to the history and neither invokes the graph nor executes
\* SQL; the token carries the cached message, or a fixed notice when the
\* cached message is empty.
C22_CacheHitStreamsMessageOrNotice ==
    [][HitDue =>
         (HitAnswered
          /\ stream'[1] = TokenRecord(IF HitEntry.message = EmptyMessage
                                      THEN [kind |-> "processed_from_cache"]
                                      ELSE HitEntry.message))]_vars

\* a turn was answered from an entry with sql data
C22_Witness ==
    /\ ServedFromCache
    /\ stream[2].sql # None
    /\ stream[2].sql.cached
    /\ Len(history_store[request.session_id]) = HistoryLimit

(***************************************************************************)
(* C23: the persisted history                                              *)
(***************************************************************************)
\* the step emits the result record of a turn: the reply of the mutation
\* handler or a cache hit when the request is received, or the result of the
\* graph
ResultStep ==
    /\ Len(stream') = 2
    /\ turns' = turns + 1 \/ stream = <<>>

\* the last HistoryLimit entries of a sequence
LastEntries(entries) ==
    SubSeq(entries, Max(1, Len(entries) - HistoryLimit + 1), Len(entries))

\* a turn that emits a result record appends its user entry and then its
\* assistant entry and keeps the last 20 entries; no other step touches the
\* history
HistoryStep ==
    IF ResultStep
    THEN history_store' =
            [history_store EXCEPT
                ![request'.session_id] =
                    LastEntries(@ \o <<Entry("user", turns'), Entry("assistant", turns')>>)]
    ELSE history_store' = history_store

\* at most 20 entries, in pairs of the user and the assistant entry of one
\* turn, in turn order
HistoryShape ==
    \A session_id \in SessionIds :
       LET history == history_store[session_id] IN
       /\ Len(history) <= HistoryLimit
       /\ \A i \in 1..Len(history) :
             /\ history[i].role = IF i % 2 = 1 THEN "user" ELSE "assistant"
             /\ history[i].turn <= turns
             /\ (i % 2 = 0) => history[i].turn = history[i - 1].turn
             /\ (i > 2) => history[i - 2].turn < history[i].turn

\* C23: the persisted history of a session has at most 20 entries and is the
\* last 20 entries of the sequence that has, for each turn that produced a
\* result record, in turn order, the user message followed by the assistant
\* message.
C23_HistoryIsLastTwentyEntries ==
    /\ []HistoryShape
    /\ [][HistoryStep]_vars

\* three turns were appended to a full history, which dropped its six oldest
\* entries
C23_Witness ==
    \E session_id \in SessionIds :
       /\ Len(history_store[session_id]) = HistoryLimit
       /\ history_store[session_id][HistoryLimit].turn = MaxTurns
       /\ history_store[session_id][HistoryLimit - 5].turn = 1
       /\ history_store[session_id][1].turn < 0

(***************************************************************************)
(* Sessions with a pending mutation in which a Redis delete may fail       *)
(***************************************************************************)
RedisMessages == { W_cancel, M_yes, M_one, M_ab }

RedisNext ==
    \/ \E session_id \in SessionIds, message \in RedisMessages, redis \in RedisModes :
          ReceiveRequest(session_id, message, None, 0, redis)
    \/ \E llm_route \in {"SQL", "CHAT"} : RouteNode(llm_route)
    \/ ChatNode("reply")
    \/ IntentNode(None)
    \/ MutationUnderstandNode
    \/ SqlBuildNode(None)
    \/ SqlValidateNode(TRUE)
    \/ \E outcome \in FormDbOutcomes : SqlExecuteNode(outcome)
    \/ RespondNode
    \/ FinishTurn(FALSE)

RedisSpec == FormInit /\ [][RedisNext]_vars

(***************************************************************************)
(* C24: Redis failures                                                     *)
(***************************************************************************)
\* the cancelling turn has returned its cancellation message
CancelCompletes ==
    (CancelTurn /\ TurnOver)
        => stream = <<TokenRecord(CancelMessage),
                      build_final_response(CancelMessage, "ok", None, None)>>

\* the confirming turn goes on to the graph
ConfirmationCompletes == (TurnStarted /\ ConfirmedYes) => GraphInvoked

\* every turn that has returned has emitted its records
TurnCompletes == TurnOver => stream # <<>>

\* C24: when a Redis operation fails, get is a miss and set and delete are
\* no-ops, and none of them raises: every turn, also one that cancels or
\* confirms and so clears the mutation state, completes with its normal
\* stream.
C24_RedisFailureTransparent ==
    /\ CancelCompletes
    /\ ConfirmationCompletes
    /\ TurnCompletes

(***************************************************************************)
(* C31: the router's keyword fallback                                      *)
(***************************************************************************)
RouterFellBackOn == call # None /\ call.op = "router_fallback"

\* the utterance has a word that is the keyword or begins with it (an
\* inflected form: 'tasks', 'added')
MentionsKeyword(q) ==
    \E w \in RouterKeywords : \E i \in 1..(Len(q) - Len(w) + 1) :
        /\ SubSeq(q, i, i + Len(w) - 1) = w
        /\ (i = 1 \/ ~IsWordChar(q[i - 1]))

\* C31: RouterService.fallback returns SQL for every utterance that mentions
\* one of the keywords, also in an inflected form such as 'tasks' in 'how
\* many tasks are there', and CHAT for every other utterance.
C31_FallbackRoutesKeywordsToSql ==
    RouterFellBackOn =>
        (call.result = "SQL") <=> MentionsKeyword(Lower(Strip(call.args[1])))

(***************************************************************************)
(* Requests that overlap on one session.  generate_chat_stream is a        *)
(* coroutine: every await on Redis or on the database lets another request *)
(* of the same session run, and nothing in chat_service.py takes a lock.   *)
(* A request advances from one access of the shared data (the mutation     *)
(* key, the history key, the database) to the next; what it computes in    *)
(* between is local.  inflight.req[i] holds the locals of request i,       *)
(* inflight.version counts the writes of the mutation key.                 *)
(***************************************************************************)
Requests == {1, 2}

RaceSession == <<"s">>

M_date_ab == <<"d", "a", "t", "e", "=", "a", "b">>
M_occurrence_2 ==
    <<"o", "c", "c", "u", "r", "r", "e", "n", "c", "e", "=", "2">>

RaceMessages == { M_date_ab, M_occurrence_2, M_yes, W_cancel }

\* the states a form leaves when its last field is accepted
ConfirmationStates ==
    { r.store : r \in { rr \in { handle_active_mutation(m, st) :
                                    m \in {M_ab}, st \in FormStates } :
                          /\ rr.kind = "response"
                          /\ rr.store.present
                          /\ rr.store.awaiting = "confirmation" } }

\* a form with two open fields, and the forms that await their confirmation
RaceStates ==
    { RecoveredState(<< <<<<W_date, <<>>>>, <<W_occurrence, <<>>>>>>,
                        "invalid_value", W_date >>) }
    \cup ConfirmationStates

NewRequest ==
    [pc |-> "new", message |-> <<>>, history |-> <<>>, loaded |-> NoMutation,
     version |-> 0, ctx |-> None, agent |-> NoAgent, stream |-> <<>>,
     accepted |-> <<>>, ran |-> FALSE]

RaceInit ==
    /\ workflow = TRUE
    /\ mutation_store \in [SessionIds -> RaceStates]
    /\ history_store = [s \in SessionIds |-> <<>>]
    /\ response_cache = EmptyDict
    /\ pc = "idle"
    /\ request = NoRequest
    /\ loaded = NoMutation
    /\ agent = NoAgent
    /\ visited = <<>>
    /\ executed = <<>>
    /\ stream = <<>>
    /\ turns = 0
    /\ turn_log = <<NoFacts, NoFacts>>
    /\ call = None
    /\ retry = None
    /\ inflight = [req |-> [i \in Requests |-> NewRequest], version |-> 0]

\* the variables the overlapping requests leave alone
RaceFrame ==
    UNCHANGED <<workflow, response_cache, pc, request, loaded, agent, visited,
                stream, turns, turn_log, call, retry>>

At(i, where) == inflight.req[i].pc = where

\* request i goes on with its locals changed to r
Moved(i, r) == [inflight EXCEPT !.req[i] = r]

\* ... and has written the mutation key
MovedWriting(i, r) ==
    [inflight EXCEPT !.req[i] = r, !.version = @ + 1]

\* POST /chat arrives (chat_service.py:468-476)
RaceReceive(i, message) ==
    /\ At(i, "new")
    /\ inflight' = Moved(i, [inflight.req[i] EXCEPT !.pc = "load_history",
                                                    !.message = message])
    /\ UNCHANGED <<mutation_store, history_store, executed>>
    /\ RaceFrame

\* chat_service.py:478
RaceLoadHistory(i) ==
    /\ At(i, "load_history")
    /\ inflight' = Moved(i, [inflight.req[i] EXCEPT
                                !.pc = "load_state",
                                !.history = history_store[RaceSession]])
    /\ UNCHANGED <<mutation_store, history_store, executed>>
    /\ RaceFrame

\* chat_service.py:479-481
RaceLoadState(i) ==
    /\ At(i, "load_state")
    /\ inflight' =
         Moved(i, [inflight.req[i] EXCEPT
                      !.pc = IF mutation_store[RaceSession].present
                             THEN "handle" ELSE "graph",
                      !.loaded = mutation_store[RaceSession],
                      !.version = inflight.version])
    /\ UNCHANGED <<mutation_store, history_store, executed>>
    /\ RaceFrame

\* the pairs of after that before does not hold with the same value
RECURSIVE NewPairs(_, _)
NewPairs(before, after) ==
    IF after = <<>> THEN <<>>
    ELSE (IF Get(before, Head(after)[1], <<>>) = Head(after)[2] THEN <<>>
          ELSE <<Head(after)>>) \o NewPairs(before, Tail(after))

\* _handle_active_mutation on the state the request loaded, up to its one
\* write of the mutation key (chat_service.py:482-495)
RaceHandle(i) ==
    /\ At(i, "handle")
    /\ \E r \in { inflight.req[i] } :
       \E result \in { handle_active_mutation(r.message, r.loaded) } :
          IF result.kind = "raise"
          THEN /\ inflight' = Moved(i, [r EXCEPT !.pc = "done"])
               /\ UNCHANGED mutation_store
          ELSE /\ mutation_store' =
                    [mutation_store EXCEPT ![RaceSession] = result.store]
               /\ inflight' =
                    MovedWriting(i,
                       [r EXCEPT
                          !.pc = IF result.kind = "response" THEN "save_history"
                                 ELSE "graph",
                          !.ctx = result.ctx,
                          !.stream =
                             IF result.kind = "response"
                             THEN <<TokenRecord(result.resp.message), result.resp>>
                             ELSE <<>>,
                          !.accepted =
                             IF result.kind = "response" /\ result.store.present
                             THEN NewPairs(r.loaded.collected_fields,
                                           result.store.collected_fields)
                             ELSE <<>>])
    /\ UNCHANGED <<history_store, executed>>
    /\ RaceFrame

\* _save_history (chat_service.py:487-493, 641-647)
RaceSaveHistory(i) ==
    /\ At(i, "save_history")
    /\ history_store' =
         [history_store EXCEPT
            ![RaceSession] = Extended(inflight.req[i].history, i)]
    /\ inflight' = Moved(i, [inflight.req[i] EXCEPT !.pc = "done"])
    /\ UNCHANGED <<mutation_store, executed>>
    /\ RaceFrame

\* workflow.ainvoke up to sql_execute (graph.py:34-57): route, chat or
\* intent, mutation_understand, sql_build, sql_validate
RaceGraph(i, llm_route, llm_intent, schema_known) ==
    /\ At(i, "graph")
    /\ \E r \in { inflight.req[i] } :
       \E route \in { IF r.ctx # None THEN "SQL" ELSE llm_route } :
          IF route = "CHAT"
          THEN inflight' =
                 Moved(i, [r EXCEPT !.pc = "finish",
                                    !.agent = [NoAgent EXCEPT
                                                 !.route = route,
                                                 !.message = [kind |-> "chat_reply"]]])
          ELSE
       \E intent \in { IF llm_intent # None THEN llm_intent
                       ELSE intent_fallback(r.message) } :
       \E resolved_table \in { understanding_resolve_table(r.message, intent) } :
       \E understood \in
          { IF intent.operation \in {"insert", "update"} /\ resolved_table # <<>>
            THEN [intent EXCEPT !.table = resolved_table] ELSE intent } :
       \E built \in { sql_builder_run(r.message, understood, 0, r.ctx, None) } :
          IF built.raises
          THEN inflight' =
                 Moved(i, [r EXCEPT !.pc = "done",
                                    !.stream = <<ErrorRecord("exception")>>])
          ELSE
       \E state \in
          { [NoAgent EXCEPT
               !.route = route, !.intent = understood,
               !.sql_query = built.sql_query,
               !.message = IF built.message # None THEN built.message ELSE @,
               !.workflow_payload = built.workflow_payload] } :
          IF after_sql_build(state) = "end"
          THEN inflight' = Moved(i, [r EXCEPT !.pc = "finish", !.agent = state])
          ELSE IF validate_sql(state.sql_query, schema_known)
          THEN inflight' = Moved(i, [r EXCEPT !.pc = "execute", !.agent = state])
          ELSE inflight' =
                 Moved(i, [r EXCEPT
                             !.pc = "finish",
                             !.agent =
                                [state EXCEPT
                                   !.error = ValidationError,
                                   !.message = response_message(ValidationError,
                                                                state.sql_query, 0)]])
    /\ UNCHANGED <<mutation_store, history_store, executed>>
    /\ RaceFrame

\* SQLExecuteNode.run, then ResponseNode.run
RaceExecute(i, outcome) ==
    /\ At(i, "execute")
    /\ \E r \in { inflight.req[i] } :
       \E state \in
          { IF outcome.ok
            THEN [r.agent EXCEPT !.row_count = outcome.count, !.error = None]
            ELSE [r.agent EXCEPT !.error = outcome.error] } :
          /\ executed' = Append(executed, r.agent.sql_query)
          /\ inflight' =
               Moved(i, [r EXCEPT
                           !.pc = "finish", !.ran = TRUE,
                           !.agent =
                              [state EXCEPT
                                 !.message = response_message(state.error,
                                                              state.sql_query,
                                                              state.row_count)]])
    /\ UNCHANGED <<mutation_store, history_store>>
    /\ RaceFrame

\* chat_service.py:545-636: recovery and passthrough write the mutation key
RaceFinish(i) ==
    /\ At(i, "finish")
    /\ \E r \in { inflight.req[i] } :
       \E out \in { Outcome(r.agent, r.ctx, mutation_store[RaceSession], FALSE) } :
       \E after \in
          { [r EXCEPT !.pc = "save_history",
                      !.stream = <<TokenRecord(out.response.message), out.response>>] } :
          /\ mutation_store' = [mutation_store EXCEPT ![RaceSession] = out.store]
          /\ inflight' = IF out.store # mutation_store[RaceSession]
                         THEN MovedWriting(i, after) ELSE Moved(i, after)
    /\ UNCHANGED <<history_store, executed>>
    /\ RaceFrame

RaceNext ==
    \/ \E i \in Requests, message \in RaceMessages : RaceReceive(i, message)
    \/ \E i \in Requests : RaceLoadHistory(i)
    \/ \E i \in Requests : RaceLoadState(i)
    \/ \E i \in Requests : RaceHandle(i)
    \/ \E i \in Requests : RaceSaveHistory(i)
    \/ \E i \in Requests, llm_route \in {"SQL", "CHAT"},
          llm_intent \in {None, Intent("insert", W_task, EmptyDict)},
          schema_known \in BOOLEAN :
          RaceGraph(i, llm_route, llm_intent, schema_known)
    \/ \E i \in Requests, outcome \in FormDbOutcomes : RaceExecute(i, outcome)
    \/ \E i \in Requests : RaceFinish(i)

RaceSpec == RaceInit /\ [][RaceNext]_vars

(***************************************************************************)
(* C32, C33: overlapping requests of one session                           *)
(***************************************************************************)
Req(i) == inflight.req[i]

\* request i has returned after its handler accepted the value of one field
AcceptedOne(i) == At(i, "done") /\ Len(Req(i).accepted) = 1

\* the stored state holds the pair request i accepted
Holds(i) ==
    /\ mutation_store[RaceSession].present
    /\ Get(mutation_store[RaceSession].collected_fields,
           Req(i).accepted[1][1], <<>>) = Req(i).accepted[1][2]

\* C32: the writes of a session's mutation state are serialized: when two
\* overlapping requests of the session each accept a value for a different
\* required field, the state persisted after both have completed holds both
\* accepted values, whatever the interleaving.
C32_NoLostUpdate ==
    \A i \in Requests, j \in Requests :
        (/\ i # j
         /\ AcceptedOne(i) /\ AcceptedOne(j)
         /\ Req(i).accepted[1][1] # Req(j).accepted[1][1])
            => Holds(i) /\ Holds(j)

\* the handler of request i confirmed the state it loaded and the graph was
\* invoked with that state's mutation_context
InvokedWithContext(i) ==
    Req(i).ctx # None /\ Req(i).pc \in {"execute", "finish", "save_history", "done"}

\* C33: one pending mutation state that gets confirmed makes the graph run
\* with its mutation_context, and its statement execute, at most once under
\* every interleaving: two requests never both confirm the same stored state.
C33_ConfirmedStateRunsOnce ==
    \A i \in Requests, j \in Requests :
        (i # j /\ InvokedWithContext(i) /\ InvokedWithContext(j))
            => Req(i).version # Req(j).version

(***************************************************************************)
(* C34: where the mutation_context of a graph run comes from               *)
(***************************************************************************)
\* sql_execute ran an INSERT or UPDATE that sql_build rendered from
\* metadata.mutation_context in the current turn
ExecutedFromContext ==
    /\ TurnStarted
    /\ TurnContext # None
    /\ \E k \in 1..Len(executed) :
          executed[k].by = "builder" /\ executed[k].kind \in {"INSERT", "UPDATE"}

\* the state machine set the context in this turn: the turn loaded a stored
\* form and its handler let the request through to the graph
ContextSetByHandler == loaded.present /\ GraphInvoked

\* C34: the graph builds and executes an INSERT or UPDATE from
\* metadata.mutation_context only when the state machine set that context in
\* the same turn; a mutation_context that came with the client's request
\* never makes a mutation run without the collection and confirmation turns.
C34_ContextOnlyFromStateMachine == ExecutedFromContext => ContextSetByHandler

(***************************************************************************)
(* Sessions in which the database refuses an INSERT for a column that has  *)
(* no default value.  The client's form sends the mutation_context; the    *)
(* table is task, whose manifest entry names its important columns, or     *)
(* log, whose entry names none.                                            *)
(***************************************************************************)
RecoveryMessages == { M_ab, M_one, M_yes }

RecoveryContexts ==
    { None,
      [operation |-> "insert", table |-> W_task, fields |-> <<<<W_title, M_ab>>>>],
      [operation |-> "insert", table |-> W_log, fields |-> <<<<W_title, M_ab>>>>] }

\* the row is stored, or the statement lacks a column without default:
\* enabled (not an important column of task) or active (one)
RecoveryDbOutcomes ==
    { [ok |-> TRUE, count |-> 1, error |-> None] }
    \cup { [ok |-> FALSE, count |-> 0, error |-> DbError("missing_default", c)] :
             c \in {W_enabled, W_active} }

RecoveryInit ==
    /\ workflow = TRUE
    /\ mutation_store = [s \in SessionIds |-> NoMutation]
    /\ history_store = [s \in SessionIds |-> <<>>]
    /\ response_cache = EmptyDict
    /\ pc = "idle"
    /\ request = NoRequest
    /\ loaded = NoMutation
    /\ agent = NoAgent
    /\ visited = <<>>
    /\ executed = <<>>
    /\ stream = <<>>
    /\ turns = 0
    /\ turn_log = <<NoFacts, NoFacts>>
    /\ call = None
    /\ retry = None
    /\ inflight = <<>>

RecoveryNext ==
    \/ \E session_id \in SessionIds, message \in RecoveryMessages,
          client_context \in RecoveryContexts :
          ReceiveRequest(session_id, message, client_context, 0, "up")
    \/ \E llm_route \in {"SQL", "CHAT"} : RouteNode(llm_route)
    \/ ChatNode("reply")
    \/ IntentNode(None)
    \/ MutationUnderstandNode
    \/ SqlBuildNode(None)
    \/ SqlValidateNode(TRUE)
    \/ \E outcome \in RecoveryDbOutcomes : SqlExecuteNode(outcome)
    \/ RespondNode
    \/ FinishTurn(FALSE)

RecoverySpec == RecoveryInit /\ [][RecoveryNext]_vars

(***************************************************************************)
(* C35: progress of the post-execution recovery                            *)
(***************************************************************************)
\* the turn before stored the user's value for the column that the turn
\* before it had recovered, and this turn handed the mutation to the graph,
\* where sql_build has run on it
RecoveredValueRebuilt ==
    /\ TurnStarted
    /\ turn_log[1].accepted # <<>>
    /\ loaded.present
    /\ TurnContext # None
    /\ TurnContext.operation = "insert"
    /\ Ran("sql_build")
    /\ pc # "failed"

\* C35: after recovery for a column the database requires, once the user has
\* supplied a value for it and the mutation is handed to the graph again, the
\* INSERT built by sql_build contains that column with that value, so the same
\* error cannot recur for the column turn after turn.
C35_RecoveredColumnInInsert ==
    RecoveredValueRebuilt =>
        /\ agent.sql_query \notin {None, SKIP}
        /\ agent.sql_query.kind = "INSERT"
        /\ Get(agent.sql_query.assignments, turn_log[1].accepted[1], <<>>)
             = safe_value(turn_log[1].accepted[2])

(***************************************************************************)
(* C36: the sql data of a result record                                    *)
(***************************************************************************)
\* the turn has returned the result record of a graph run
GraphResult ==
    /\ TurnOver
    /\ visited # <<>>
    /\ TokenThenResult
    /\ stream[2].type = "result"

ReportsRan == stream[2].sql # None /\ stream[2].sql.ran

\* sql_execute sent the reported query to the database and it succeeded
ExecutedReported ==
    /\ Ran("sql_execute")
    /\ executed = <<stream[2].sql.query>>
    /\ agent.error = None

\* sql_validate refused the query, or its execution raised
RefusedOrRaised == agent.error # None

\* C36: the result record of a graph run carries sql data with ran = true
\* only if sql_execute executed the reported query successfully in that turn;
\* when sql_validate refuses the query or the execution raises, the result
\* has status error and does not report ran = true.
C36_RanOnlyWhenExecuted ==
    GraphResult =>
        /\ ReportsRan => ExecutedReported
        /\ RefusedOrRaised => (stream[2].status = "error" /\ ~ReportsRan)

(***************************************************************************)
(* Sessions that hold the form of an update request sql_build could not    *)
(* build: the turn before persisted the state made from the builder's      *)
(* workflow payload (sql_builder_node.py:71-79, chat_service.py:585-612),   *)
(* and sessions that hold no form, in which such a request is still to     *)
(* come                                                                    *)
(***************************************************************************)
M_seven == <<"7">>
M_title_ab == <<"t", "i", "t", "l", "e", "=", "a", "b">>
M_id_7_title_ab ==
    <<"i", "d", "=", "7", ",", " ", "t", "i", "t", "l", "e", "=", "a", "b">>

UpdateFormMessages == { M_one, M_two, M_seven, M_ab, M_title_ab, M_id_7_title_ab, M_yes }

\* the payload of the update hint, for the tables of the manifest
UpdateFormStates ==
    { passthrough_state(mutation_form_payload(table, "update",
                                              <<W_id, W_field_value>>)) :
          table \in table_names }

UpdateFormInit ==
    /\ workflow = TRUE
    /\ mutation_store \in [SessionIds -> UpdateFormStates \cup {NoMutation}]
    /\ history_store = [s \in SessionIds |-> HistoryOf(2)]
    /\ response_cache = EmptyDict
    /\ pc = "idle"
    /\ request = NoRequest
    /\ loaded = NoMutation
    /\ agent = NoAgent
    /\ visited = <<>>
    /\ executed = <<>>
    /\ stream = <<>>
    /\ turns = 0
    /\ turn_log = <<NoFacts, NoFacts>>
    /\ call = None
    /\ retry = None
    /\ inflight = <<>>

UpdateFormNext ==
    \/ \E session_id \in SessionIds, message \in UpdateFormMessages :
          ReceiveRequest(session_id, message, None, 0, "up")
    \/ \E llm_route \in {"SQL", "CHAT"} : RouteNode(llm_route)
    \/ ChatNode("reply")
    \/ \E llm_intent \in {None, Intent("update", W_task, EmptyDict)} :
          IntentNode(llm_intent)
    \/ MutationUnderstandNode
    \/ SqlBuildNode(None)
    \/ SqlValidateNode(TRUE)
    \/ \E outcome \in FormDbOutcomes : SqlExecuteNode(outcome)
    \/ RespondNode
    \/ FinishTurn(FALSE)

UpdateFormSpec == UpdateFormInit /\ [][UpdateFormNext]_vars

(***************************************************************************)
(* C37: completing the form of an update                                   *)
(***************************************************************************)
\* the user completed and confirmed a form of an update, the handler handed
\* its mutation_context to the graph, and sql_build has run on it
UpdateFormConfirmed ==
    /\ TurnStarted
    /\ loaded.present
    /\ loaded.operation = "update"
    /\ TurnContext # None
    /\ Ran("sql_build")

\* C37: the form started by an update request that sql_build could not build
\* can be completed: when the user has filled in and confirmed it, sql_build
\* emits an UPDATE statement (not SKIP) from the collected fields.
C37_UpdateFormBuildsUpdate ==
    UpdateFormConfirmed =>
        /\ agent.sql_query \notin {None, SKIP}
        /\ agent.sql_query.kind = "UPDATE"

(***************************************************************************)
(* C38: the page of a persisted state                                      *)
(***************************************************************************)
\* the uncollected required fields of a state
Uncollected(state) == remaining_fields(state.required_fields, state.collected_fields)

\* 0 <= page <= total_pages - 1 for the uncollected fields of the state
PageInRange(state) ==
    /\ 0 <= state.page
    /\ state.page <= Max(1, CeilDiv(Len(Uncollected(state)), state.page_size)) - 1

\* the page resolve_field_selection takes a number to index
ResolvedPage(state) == Max(0, state.page)

\* the page the menu of the state displays, counted from 0
DisplayedPage(state) == build_field_menu(state)[2].pagination.page - 1

\* the menu a turn of the state machine returns is the menu of the state
\* it persisted
MenuOfStoredState ==
    (HandledInPrelude /\ ShownMode("field_selection"))
        => /\ StoredState.present
           /\ stream[2].workflow = build_field_menu(StoredState)[2]

\* C38: in every mutation state persisted after any sequence of turns that
\* starts from a state with page = 0, 0 <= page <= total_pages - 1 for the
\* fields still uncollected, so the page by which a numeric choice is
\* resolved is the page the last rendered menu displayed.
C38_PageWithinMenu ==
    /\ \A s \in SessionIds :
          mutation_store[s].present
              => /\ PageInRange(mutation_store[s])
                 /\ ResolvedPage(mutation_store[s]) = DisplayedPage(mutation_store[s])
    /\ MenuOfStoredState

\* a number was resolved on the second page of a menu: the first field of
\* that page, the sixth uncollected one, awaits its value
C38_Witness ==
    /\ HandledInPrelude
    /\ loaded.awaiting = "field_selection"
    /\ loaded.page = 1
    /\ UserText = M_one
    /\ StoredState.present
    /\ StoredState.awaiting = "field_value"
    /\ StoredState.page = 1
    /\ StoredState.pending_field = Uncollected(loaded)[6]

(***************************************************************************)
(* C39: plain values drive the collection to the confirmation              *)
(***************************************************************************)
\* a turn on a state that collects fields and has uncollected ones, with a
\* bare value: not empty, no key=value pair, no command, no word that
\* cancels or pages, no number of the menu page, no name of an open field
PlainValueTurn ==
    /\ TurnStarted
    /\ loaded.present
    /\ loaded.awaiting \in {"field_selection", "field_value"}
    /\ LoadedRemaining # <<>>
    /\ UserText # <<>>
    /\ parse_kv_pairs(UserText) = EmptyDict
    /\ ~is_command_like_input(UserText)
    /\ LowerText \notin CancelWords \cup PagingWords
    /\ ~IndexesMenuPage
    /\ ~NamesRemainingField

\* the turn collected the pending field and nothing else
CollectedPending ==
    /\ StoredState.present
    /\ IsMissing(loaded.collected_fields, LoadedPending)
    /\ ~IsMissing(StoredState.collected_fields, LoadedPending)
    /\ Len(StoredRemaining) = Len(LoadedRemaining) - 1
    /\ \A i \in 1..Len(loaded.required_fields) :
          loaded.required_fields[i] # LoadedPending
              => Get(StoredState.collected_fields, loaded.required_fields[i], <<>>)
                   = Get(loaded.collected_fields, loaded.required_fields[i], <<>>)

\* the state asks for the first uncollected field next, or for the
\* confirmation when none is left
AsksNextOrConfirms ==
    IF StoredRemaining # <<>>
    THEN /\ StoredState.awaiting = "field_selection"
         /\ StoredState.pending_field = StoredRemaining[1]
         /\ ShownMode("field_selection")
    ELSE /\ StoredState.awaiting = "confirmation"
         /\ ShownMode("confirmation")

\* C39: from a pending state with k >= 1 uncollected required fields, k
\* consecutive turns with plain values collect exactly one field per turn,
\* the pending field first and then the first uncollected field in the order
\* of required_fields, and the k-th turn returns the confirmation prompt:
\* every such turn returns in the prelude with one field fewer to collect.
C39_PlainValuesReachConfirmation ==
    PlainValueTurn
        => /\ HandledInPrelude
           /\ CollectedPending
           /\ AsksNextOrConfirms

(***************************************************************************)
(* Two sessions.  The turns are those of session s; session s1, whose id   *)
(* begins with the id of s, holds a form and a history of its own.         *)
(***************************************************************************)
OtherSession == <<"s", "1">>

TwoSessions == SessionIds \cup {OtherSession}

\* the form and the history of the other session
OtherState ==
    RecoveredState(<< <<<<W_active, <<>>>>>>, "invalid_value", W_active >>)

OtherHistory == HistoryOf(4)

SessionsInit ==
    /\ workflow = TRUE
    /\ mutation_store \in
         { [s \in TwoSessions |-> IF s = OtherSession THEN OtherState ELSE state] :
              state \in FormStates \cup {NoMutation} }
    /\ history_store =
         [s \in TwoSessions |-> IF s = OtherSession THEN OtherHistory ELSE <<>>]
    /\ response_cache = EmptyDict
    /\ pc = "idle"
    /\ request = NoRequest
    /\ loaded = NoMutation
    /\ agent = NoAgent
    /\ visited = <<>>
    /\ executed = <<>>
    /\ stream = <<>>
    /\ turns = 0
    /\ turn_log = <<NoFacts, NoFacts>>
    /\ call = None
    /\ retry = None
    /\ inflight = <<>>

SessionsMessages == { M_one, M_ab, M_yes, W_cancel, M_add_task }

SessionsNext ==
    \/ \E session_id \in SessionIds, message \in SessionsMessages,
          client_context \in ClientContexts :
          ReceiveRequest(session_id, message, client_context, 0, "up")
    \/ \E llm_route \in {"SQL", "CHAT"} : RouteNode(llm_route)
    \/ ChatNode("reply")
    \/ \E llm_intent \in {None, Intent("update", W_task, EmptyDict)} :
          IntentNode(llm_intent)
    \/ MutationUnderstandNode
    \/ SqlBuildNode(None)
    \/ SqlValidateNode(TRUE)
    \/ \E outcome \in FormDbOutcomes : SqlExecuteNode(outcome)
    \/ RespondNode
    \/ FinishTurn(FALSE)
    \/ TurnFailed

SessionsSpec == SessionsInit /\ [][SessionsNext]_vars

(***************************************************************************)
(* C40: sessions are kept apart                                            *)
(***************************************************************************)
\* C40: a turn on a session never reads or changes the persisted history or
\* mutation state of another session: after any sequence of turns on s the
\* history and the mutation state of s1 are what they were before, and no
\* turn on s loaded the state of s1.
C40_OtherSessionUntouched ==
    /\ mutation_store[OtherSession] = OtherState
    /\ history_store[OtherSession] = OtherHistory
    /\ loaded # OtherState

\* three turns on s have changed its own state and history
C40_Witness ==
    /\ TurnOver
    /\ turns = MaxTurns
    /\ StoredState.present
    /\ StoredState # OtherState
    /\ Len(history_store[request.session_id]) = 2 * MaxTurns
    /\ mutation_store[OtherSession] = OtherState

====
